---- MODULE Spec2Model ----
(***************************************************************************)
(* Model of the go-template helper library (src/template.go, the current   *)
(* revision, lines 1-875): the unsafe-render gate and the Template         *)
(* wrapper, the two TTL caches with cacheSet / cacheGet and                *)
(* getAuthXBearerToken, and the numeric coercion of multiply.              *)
(***************************************************************************)
EXTENDS Integers, Sequences, FiniteSets, TLC

VARIABLES
    RootTemplate,   \* [funcs, partials]: the UNSAFE_render binding of the
                    \* shared root and its associated (named) templates
    templates,      \* the Template objects parsed so far, each [funcs, src,
                    \* partials] (and, as history, the last toggle and the
                    \* partials loaded before its parse)
    TemplateFuncs,  \* the exported registry map: name -> implementation
    loaded,         \* history: the partials defined by a load that
                    \* returned nil
    lastToggle,     \* history: argument of the last AllowUnsafeRender call
    lastCall,       \* history: the last parse / execute call and its result
    now,            \* the wall clock, in ticks
    templateCache,  \* the template-level TTL cache: key -> entry
    procs,          \* the renders calling cacheSet, numbered in the order
                    \* of their calls: [pc, key, value, err, ...]
    lastSet,        \* history: per key, the SetEx that took effect last
    lastDone,       \* history: per key, the cacheSet call that returned last
    cacheCall,      \* history: the cacheGet made since the last change of
                    \* the clock or of the cacheSet calls, and its result
    authxTokenCache,\* the bearer-token TTL cache: cache key -> entry
    lastFetch,      \* history: per cache key, when its token was fetched
    authCall,       \* history: the getAuthXBearerToken call made since the
                    \* last change of the clock, and its outcome
    mulCall,        \* a call of multiply and ge: its operands and, once
                    \* made, its results
    funcCall,       \* the last call of another helper function: its
                    \* arguments and its outcome
    muFuncs,        \* the root's sync.RWMutex: [w, held, readers, waiting]
    common,         \* the root's two function maps: the UNSAFE_render
                    \* binding in execFuncs and in parseFuncs
    toggling,       \* per goroutine, its call of AllowUnsafeRender
    parsing         \* per goroutine, its call of Parse and its render

gateVars ==
    <<RootTemplate, templates, lastToggle, lastCall, TemplateFuncs, loaded>>

cacheVars ==
    <<now, templateCache, procs, lastSet, lastDone, cacheCall>>

authVars == <<authxTokenCache, lastFetch, authCall>>

concVars == <<muFuncs, common, toggling, parsing>>

pureVars == <<mulCall, funcCall, concVars>>

vars == <<gateVars, cacheVars, authVars, pureVars>>

----------------------------------------------------------------------------
(* Bounds *)

MaxTemplates == 2

\* the clock stops at MaxTime ticks
MaxTime == 2

\* number of renders that call cacheSet, concurrently or one after another
NumProcs == 2

\* clock ticks per second
TicksPerSecond == 2

----------------------------------------------------------------------------
(* The environment: files on disk and the data handed to a render *)

\* files that exist, and what UNSAFE_render call their body makes ("" = none:
\* the body is {{ .data }})
ExistingFiles == {"valid.tmpl", "nested.tmpl"}

FileInvokes(f) == IF f = "nested.tmpl" THEN "valid.tmpl" ELSE ""

\* filenames a template may pass to UNSAFE_render
FileNames == ExistingFiles \cup {"missing.tmpl", ""}

Data == {"x", "y"}

\* template sources: a call of UNSAFE_render on a file, plain text, or text
\* the engine rejects
Sources ==
    [kind : {"render"}, file : FileNames]
        \cup [kind : {"text", "bad"}, file : {""}]

\* names of partials, what a template is bound to before it is defined, and
\* the bodies a definition may have
PartialNames == {"P", "Q"}

Undefined == "undefined"

PartialBodies == {"v1", "v2"}

NoPartials == [n \in PartialNames |-> Undefined]

\* sources that invoke a partial by name: {{ template "P" . }}
InvokeSources == [kind : {"invoke"}, file : PartialNames]

\* JSON documents handed to UnmarshalJSON: a JSON string or another value
JsonInputs ==
    [json : {"string"}, src : Sources]
        \cup [json : {"number"}, src : {[kind |-> "bad", file |-> ""]}]

----------------------------------------------------------------------------
(* The two implementations of UNSAFE_render *)

ErrDisabled == "UNSAFE_render method is disabled"

\* a helper's or an execution's result: output, error ("" = nil), files read
Result(out, err, reads) == [out |-> out, err |-> err, reads |-> reads]

\* variant: the stub returns the empty string without an error
disabledUnsafeRender_NoErr(filename, data) == Result("", "", {})

disabledUnsafeRender(filename, data) == Result("", ErrDisabled, {})

RECURSIVE unsafeRender(_, _, _)
RECURSIVE callUnsafeRender(_, _, _, _)

\* the engine's function lookup in a template's own (cloned) function map
callUnsafeRender(funcs, filename, data, root) ==
    IF funcs = "unsafeRender"
    THEN unsafeRender(filename, data, root)
    ELSE disabledUnsafeRender(filename, data)

\* variant: the file is executed with the enabled implementation whatever
\* the root binds at the time of the call
unsafeRender_Inherit(filename, data, root) ==
    IF filename \notin ExistingFiles
    THEN Result("", "open " \o filename, {})
    ELSE IF FileInvokes(filename) = ""
    THEN Result(data, "", {filename})
    ELSE LET inner == callUnsafeRender("unsafeRender", FileInvokes(filename),
                                       data, root)
         IN  IF inner.err # ""
             THEN Result("", inner.err, {filename} \cup inner.reads)
             ELSE Result(inner.out, "", {filename} \cup inner.reads)

\* root is the RootTemplate at the time of the call: it is cloned, the file is
\* parsed into the clone and executed with the clone's functions
unsafeRender(filename, data, root) ==
    LET tmplFuncs == root.funcs
    IN  IF filename \notin ExistingFiles
        THEN Result("", "open " \o filename, {})
        ELSE IF FileInvokes(filename) = ""
        THEN Result(data, "", {filename})
        ELSE LET inner == callUnsafeRender(tmplFuncs, FileInvokes(filename),
                                           data, root)
             IN  IF inner.err # ""
                 THEN Result("", inner.err, {filename} \cup inner.reads)
                 ELSE Result(inner.out, "", {filename} \cup inner.reads)

\* executing a parsed template [funcs, src] with data
Execute(t, data, root) ==
    IF t.src.kind = "render"
    THEN callUnsafeRender(t.funcs, t.src.file, data, root)
    ELSE IF t.src.kind = "invoke"
    THEN IF t.partials[t.src.file] = Undefined
         THEN Result("", "template not defined", {})
         ELSE Result(t.partials[t.src.file], "", {})
    ELSE Result("text", "", {})

----------------------------------------------------------------------------
(* Operations *)

\* variant: the clone starts without the root's associated templates
CloneAndParse_NoPartials(src) ==
    [ok |-> src.kind # "bad",
     tmpl |-> [funcs |-> RootTemplate.funcs, src |-> src,
               partials |-> NoPartials,
               parsedAt |-> lastToggle, after |-> loaded]]

\* RootTemplate.Clone() followed by Parse(src): nil on a syntax error
CloneAndParse(src) ==
    [ok |-> src.kind # "bad",
     tmpl |-> [funcs |-> RootTemplate.funcs, src |-> src,
               partials |-> RootTemplate.partials,
               parsedAt |-> lastToggle, after |-> loaded]]

Call(op, tmpl, data, res) ==
    [op |-> op, tmpl |-> tmpl, data |-> data, gate |-> RootTemplate.funcs,
     toggle |-> lastToggle,
     out |-> res.out, err |-> res.err, reads |-> res.reads]

NoTemplate ==
    [funcs |-> "none", src |-> [kind |-> "bad", file |-> ""],
     partials |-> NoPartials, parsedAt |-> "none", after |-> {}]

\* variant: the else branch is missing, so the gate cannot be closed again
AllowUnsafeRender_NoDisable(allow) ==
    /\ RootTemplate' = [RootTemplate EXCEPT !.funcs =
                            IF allow THEN "unsafeRender" ELSE @]
    /\ lastToggle' = IF allow THEN "true" ELSE "false"
    /\ UNCHANGED <<templates, lastCall, TemplateFuncs, loaded, cacheVars,
                   authVars, pureVars>>

\* variant: the binding is also written into the exported map
AllowUnsafeRender_Registry(allow) ==
    /\ RootTemplate' = [RootTemplate EXCEPT !.funcs =
                            IF allow THEN "unsafeRender"
                                     ELSE "disabledUnsafeRender"]
    /\ TemplateFuncs' = [TemplateFuncs EXCEPT !["UNSAFE_render"] =
                             IF allow THEN "unsafeRender"
                                      ELSE "disabledUnsafeRender"]
    /\ lastToggle' = IF allow THEN "true" ELSE "false"
    /\ UNCHANGED <<templates, lastCall, loaded, cacheVars, authVars, pureVars>>

AllowUnsafeRender(allow) ==
    /\ RootTemplate' = [RootTemplate EXCEPT !.funcs =
                            IF allow THEN "unsafeRender"
                                     ELSE "disabledUnsafeRender"]
    /\ lastToggle' = IF allow THEN "true" ELSE "false"
    /\ UNCHANGED <<templates, lastCall, TemplateFuncs, loaded, cacheVars,
                   authVars, pureVars>>

Parse(src) ==
    /\ Len(templates) < MaxTemplates
    /\ LET p == CloneAndParse(src)
       IN  /\ templates' = IF p.ok THEN Append(templates, p.tmpl) ELSE templates
           /\ lastCall' = Call("Parse", IF p.ok THEN p.tmpl ELSE NoTemplate, "",
                               Result("", IF p.ok THEN "" ELSE "syntax", {}))
    /\ UNCHANGED <<RootTemplate, lastToggle, TemplateFuncs, loaded, cacheVars,
                   authVars, pureVars>>

UnmarshalJSON(doc) ==
    /\ Len(templates) < MaxTemplates
    /\ IF doc.json # "string"
       THEN /\ templates' = templates
            /\ lastCall' = Call("UnmarshalJSON", NoTemplate, "",
                                Result("", "json", {}))
       ELSE LET p == CloneAndParse(doc.src)
            IN  /\ templates' = IF p.ok THEN Append(templates, p.tmpl)
                                        ELSE templates
                /\ lastCall' = Call("UnmarshalJSON",
                                    IF p.ok THEN p.tmpl ELSE NoTemplate, "",
                                    Result("", IF p.ok THEN "" ELSE "syntax", {}))
    /\ UNCHANGED <<RootTemplate, lastToggle, TemplateFuncs, loaded, cacheVars,
                   authVars, pureVars>>

Interpolate(data, text) ==
    /\ LET p == CloneAndParse(text)
       IN  IF ~p.ok
           THEN lastCall' = Call("Interpolate", NoTemplate, data,
                                 Result("src", "syntax", {}))
           ELSE LET r == Execute(p.tmpl, data, RootTemplate)
                IN  lastCall' = Call("Interpolate", p.tmpl, data,
                                     IF r.err # ""
                                     THEN Result("src", r.err, r.reads)
                                     ELSE r)
    /\ UNCHANGED <<RootTemplate, templates, lastToggle, TemplateFuncs, loaded,
                   cacheVars, authVars, pureVars>>

ExecuteToString(i, data) ==
    /\ i \in 1..Len(templates)
    /\ LET r == Execute(templates[i], data, RootTemplate)
       IN  lastCall' = Call("ExecuteToString", templates[i], data,
                            IF r.err # "" THEN Result("", r.err, r.reads)
                                          ELSE r)
    /\ UNCHANGED <<RootTemplate, templates, lastToggle, TemplateFuncs, loaded,
                   cacheVars, authVars, pureVars>>

----------------------------------------------------------------------------
(* Partials: templates associated with the RootTemplate by name *)

\* a text handed to LoadPartial: {{ define name }}body{{ end }}, or a text
\* the engine rejects
PartialTexts == [name : PartialNames, body : PartialBodies, ok : BOOLEAN]

\* files handed to LoadPartialFiles: the template is named after the base
\* name of the file
PartialFiles == {"P", "Q", "dir/P", "bad", "missing"}

ReadablePartialFiles == PartialFiles \ {"missing"}

Base(filename) == IF filename = "dir/P" THEN "P" ELSE filename

FileText(filename) ==
    CASE filename = "P" -> [body |-> "v1", ok |-> TRUE]
      [] filename = "Q" -> [body |-> "v1", ok |-> TRUE]
      [] filename = "dir/P" -> [body |-> "v2", ok |-> TRUE]
      [] OTHER -> [body |-> "", ok |-> FALSE]

\* lists of filenames: none, one file, two files of which the first, the
\* second or none fails
FileLists ==
    {<<>>} \cup {<<f>> : f \in PartialFiles}
        \cup {<<"P", "Q">>, <<"Q", "dir/P">>, <<"P", "missing">>,
               <<"bad", "Q">>}

\* template.ParseFiles on the root's associated templates: the files are
\* read and parsed in order, and the first failure ends the call with the
\* earlier files defined
RECURSIVE parseFiles(_, _)
parseFiles(partials, filenames) ==
    IF filenames = <<>> THEN [partials |-> partials, err |-> ""]
    ELSE LET f == Head(filenames)
         IN  IF f \notin ReadablePartialFiles
             THEN [partials |-> partials, err |-> "open " \o f]
             ELSE IF ~FileText(f).ok
             THEN [partials |-> partials, err |-> "syntax"]
             ELSE parseFiles([partials EXCEPT ![Base(f)] = FileText(f).body],
                             Tail(filenames))

ParseFiles(partials, filenames) ==
    IF filenames = <<>>
    THEN [partials |-> partials, err |-> "no files named in call"]
    ELSE parseFiles(partials, filenames)

\* the names defined by a list of files that loads without an error
FileNamesOf(filenames) == {Base(filenames[i]) : i \in 1..Len(filenames)}

LoadPartialFiles(filenames) ==
    /\ LET r == ParseFiles(RootTemplate.partials, filenames)
       IN  /\ RootTemplate' = [RootTemplate EXCEPT !.partials = r.partials]
           /\ loaded' = IF r.err = "" THEN loaded \cup FileNamesOf(filenames)
                                      ELSE loaded
           /\ lastCall' = Call("LoadPartialFiles", NoTemplate, "",
                               Result("", r.err, {}))
    /\ UNCHANGED <<templates, lastToggle, TemplateFuncs, cacheVars, authVars,
                   pureVars>>

LoadPartial(text) ==
    /\ RootTemplate' = IF text.ok
                       THEN [RootTemplate EXCEPT
                                !.partials[text.name] = text.body]
                       ELSE RootTemplate
    /\ loaded' = IF text.ok THEN loaded \cup {text.name} ELSE loaded
    /\ lastCall' = Call("LoadPartial", NoTemplate, "",
                        Result("", IF text.ok THEN "" ELSE "syntax", {}))
    /\ UNCHANGED <<templates, lastToggle, TemplateFuncs, cacheVars, authVars,
                   pureVars>>

\* a Config: Partials is a nil slice or a list of filenames
PartialSlices ==
    {[isNil |-> TRUE, list |-> <<>>]}
        \cup {[isNil |-> FALSE, list |-> l] : l \in FileLists}

Configs == [AllowUnsafeRender : BOOLEAN, Partials : PartialSlices]

Binding(allow) == IF allow THEN "unsafeRender" ELSE "disabledUnsafeRender"

\* variant: a failed load of the partials puts the former binding back
Configure_Rollback(cfg) ==
    /\ LET r == IF ~cfg.Partials.isNil /\ Len(cfg.Partials.list) > 0
                THEN ParseFiles(RootTemplate.partials, cfg.Partials.list)
                ELSE [partials |-> RootTemplate.partials, err |-> ""]
           funcs == IF r.err # "" THEN RootTemplate.funcs
                    ELSE Binding(cfg.AllowUnsafeRender)
       IN  /\ RootTemplate' = [funcs |-> funcs, partials |-> r.partials]
           /\ lastToggle' = IF cfg.AllowUnsafeRender THEN "true" ELSE "false"
           /\ loaded' = IF r.err = "" /\ Len(cfg.Partials.list) > 0
                        THEN loaded \cup FileNamesOf(cfg.Partials.list)
                        ELSE loaded
           /\ lastCall' = [op |-> "Configure", tmpl |-> NoTemplate,
                           data |-> "", gate |-> RootTemplate.funcs,
                           toggle |-> lastToggle, out |-> "", err |-> r.err,
                           reads |-> {}, cfg |-> cfg,
                           before |-> RootTemplate.partials]
    /\ UNCHANGED <<templates, TemplateFuncs, cacheVars, authVars, pureVars>>

\* Configure: AllowUnsafeRender(cfg.AllowUnsafeRender), then LoadPartialFiles
\* if there are partials; lastCall keeps the argument and the partials
\* before the call
Configure(cfg) ==
    /\ LET r == IF ~cfg.Partials.isNil /\ Len(cfg.Partials.list) > 0
                THEN ParseFiles(RootTemplate.partials, cfg.Partials.list)
                ELSE [partials |-> RootTemplate.partials, err |-> ""]
       IN  /\ RootTemplate' = [funcs |-> Binding(cfg.AllowUnsafeRender),
                               partials |-> r.partials]
           /\ lastToggle' = IF cfg.AllowUnsafeRender THEN "true" ELSE "false"
           /\ loaded' = IF r.err = "" /\ Len(cfg.Partials.list) > 0
                        THEN loaded \cup FileNamesOf(cfg.Partials.list)
                        ELSE loaded
           /\ lastCall' = [op |-> "Configure", tmpl |-> NoTemplate,
                           data |-> "", gate |-> RootTemplate.funcs,
                           toggle |-> lastToggle, out |-> "", err |-> r.err,
                           reads |-> {}, cfg |-> cfg,
                           before |-> RootTemplate.partials]
    /\ UNCHANGED <<templates, TemplateFuncs, cacheVars, authVars, pureVars>>

\* one Template object is parsed and kept in a behaviour
NextPartials ==
    \/ \E allow \in BOOLEAN : AllowUnsafeRender(allow)
    \/ \E text \in PartialTexts : LoadPartial(text)
    \/ \E filenames \in FileLists : LoadPartialFiles(filenames)
    \/ \E cfg \in Configs : Configure(cfg)
    \/ templates = <<>> /\ \E src \in InvokeSources : Parse(src)
    \/ /\ templates = <<>>
       /\ \E src \in InvokeSources :
             UnmarshalJSON([json |-> "string", src |-> src])
    \/ \E src \in InvokeSources : Interpolate("x", src)
    \/ \E i \in 1..MaxTemplates : ExecuteToString(i, "x")

----------------------------------------------------------------------------
(* The registry under concurrent calls: Funcs and Clone of the engine take
   the root's muFuncs, a sync.RWMutex *)

Togglers == {"t1", "t2"}

Parsers == {"p1", "p2"}

NoHolder == "none"

IdleToggler == [pc |-> "idle", allow |-> FALSE]

IdleParser ==
    [pc |-> "idle", parseFuncs |-> "none", execFuncs |-> "none",
     seen |-> {}, err |-> ""]

\* the variables of the other parts
restVars ==
    <<templates, lastCall, TemplateFuncs, loaded, cacheVars, authVars,
      mulCall, funcCall>>

\* a goroutine calls AllowUnsafeRender(allow)
ToggleCall(t, allow) ==
    /\ toggling[t].pc = "idle"
    /\ toggling' = [toggling EXCEPT ![t] = [pc |-> "lock", allow |-> allow]]
    /\ UNCHANGED <<RootTemplate, lastToggle, muFuncs, common, parsing,
                   restVars>>

\* muFuncs.Lock(): the writer takes the writers' mutex, which keeps new
\* readers out
FuncsLock(t) ==
    /\ toggling[t].pc = "lock"
    /\ muFuncs.w = NoHolder
    /\ muFuncs' = [muFuncs EXCEPT !.w = t]
    /\ toggling' = [toggling EXCEPT ![t].pc = "wait"]
    /\ UNCHANGED <<RootTemplate, lastToggle, common, parsing, restVars>>

\* variant: the writer does not wait for the readers to leave
FuncsLockAcquire_NoWait(t) ==
    /\ toggling[t].pc = "wait"
    /\ muFuncs' = [muFuncs EXCEPT !.held = TRUE]
    /\ toggling' = [toggling EXCEPT ![t].pc = "exec"]
    /\ UNCHANGED <<RootTemplate, lastToggle, common, parsing, restVars>>

\* and waits until the readers that hold the lock have left
FuncsLockAcquire(t) ==
    /\ toggling[t].pc = "wait"
    /\ muFuncs.readers = {}
    /\ muFuncs' = [muFuncs EXCEPT !.held = TRUE]
    /\ toggling' = [toggling EXCEPT ![t].pc = "exec"]
    /\ UNCHANGED <<RootTemplate, lastToggle, common, parsing, restVars>>

\* addValueFuncs(t.execFuncs, funcMap)
FuncsExec(t) ==
    /\ toggling[t].pc = "exec"
    /\ common' = [common EXCEPT !.execFuncs = Binding(toggling[t].allow)]
    /\ toggling' = [toggling EXCEPT ![t].pc = "parse"]
    /\ UNCHANGED <<RootTemplate, lastToggle, muFuncs, parsing, restVars>>

\* addFuncs(t.parseFuncs, funcMap)
FuncsParse(t) ==
    /\ toggling[t].pc = "parse"
    /\ common' = [common EXCEPT !.parseFuncs = Binding(toggling[t].allow)]
    /\ toggling' = [toggling EXCEPT ![t].pc = "unlock"]
    /\ UNCHANGED <<RootTemplate, lastToggle, muFuncs, parsing, restVars>>

\* muFuncs.Unlock() and the return of AllowUnsafeRender: the readers that
\* were kept waiting get the lock; the new binding is the root's from here
\* on, and the parses in progress may see it
FuncsUnlock(t) ==
    /\ toggling[t].pc = "unlock"
    /\ muFuncs' = [w |-> NoHolder, held |-> FALSE,
                   readers |-> muFuncs.readers \cup muFuncs.waiting,
                   waiting |-> {}]
    /\ toggling' = [toggling EXCEPT ![t] = IdleToggler]
    /\ RootTemplate' = [RootTemplate EXCEPT
                           !.funcs = Binding(toggling[t].allow)]
    /\ lastToggle' = IF toggling[t].allow THEN "true" ELSE "false"
    /\ parsing' = [p \in Parsers |->
                      IF parsing[p].pc \in {"idle", "done"} THEN parsing[p]
                      ELSE [parsing[p] EXCEPT
                               !.seen = @ \cup {Binding(toggling[t].allow)},
                               !.pc = IF @ = "blocked" THEN "copyParse"
                                                       ELSE @]]
    /\ UNCHANGED <<common, restVars>>

\* a goroutine calls Parse(src): seen collects the bindings the root has
\* from the call on
ParseCall(p) ==
    /\ parsing[p].pc = "idle"
    /\ parsing' = [parsing EXCEPT ![p] =
                      [IdleParser EXCEPT !.pc = "rlock",
                                         !.seen = {RootTemplate.funcs}]]
    /\ UNCHANGED <<RootTemplate, lastToggle, muFuncs, common, toggling,
                   restVars>>

\* variant: a reader does not look for a writer
CloneRLock_NoWait(p) ==
    /\ parsing[p].pc = "rlock"
    /\ muFuncs' = [muFuncs EXCEPT !.readers = @ \cup {p}]
    /\ parsing' = [parsing EXCEPT ![p].pc = "copyParse"]
    /\ UNCHANGED <<RootTemplate, lastToggle, common, toggling, restVars>>

\* Clone: muFuncs.RLock(): the reader has the lock unless a writer holds or
\* wants it, and is else kept waiting until that writer unlocks
CloneRLock(p) ==
    /\ parsing[p].pc = "rlock"
    /\ IF muFuncs.w = NoHolder
       THEN /\ muFuncs' = [muFuncs EXCEPT !.readers = @ \cup {p}]
            /\ parsing' = [parsing EXCEPT ![p].pc = "copyParse"]
       ELSE /\ muFuncs' = [muFuncs EXCEPT !.waiting = @ \cup {p}]
            /\ parsing' = [parsing EXCEPT ![p].pc = "blocked"]
    /\ UNCHANGED <<RootTemplate, lastToggle, common, toggling, restVars>>

\* Clone: the parse functions are copied
CloneCopyParse(p) ==
    /\ parsing[p].pc = "copyParse"
    /\ parsing' = [parsing EXCEPT ![p].pc = "copyExec",
                                  ![p].parseFuncs = common.parseFuncs]
    /\ UNCHANGED <<RootTemplate, lastToggle, muFuncs, common, toggling,
                   restVars>>

\* Clone: the exec functions are copied
CloneCopyExec(p) ==
    /\ parsing[p].pc = "copyExec"
    /\ parsing' = [parsing EXCEPT ![p].pc = "runlock",
                                  ![p].execFuncs = common.execFuncs]
    /\ UNCHANGED <<RootTemplate, lastToggle, muFuncs, common, toggling,
                   restVars>>

\* Clone: muFuncs.RUnlock(); Parse then parses src with the clone's own parse
\* functions and returns the Template
CloneRUnlock(p) ==
    /\ parsing[p].pc = "runlock"
    /\ muFuncs' = [muFuncs EXCEPT !.readers = @ \ {p}]
    /\ parsing' = [parsing EXCEPT ![p].pc = "execute"]
    /\ UNCHANGED <<RootTemplate, lastToggle, common, toggling, restVars>>

\* the goroutine renders its Template, which calls UNSAFE_render through the
\* clone's own exec functions and its own lock
Render(p) ==
    /\ parsing[p].pc = "execute"
    /\ parsing' = [parsing EXCEPT
                      ![p].pc = "done",
                      ![p].err = callUnsafeRender(parsing[p].execFuncs,
                                       "valid.tmpl", "x", RootTemplate).err]
    /\ UNCHANGED <<RootTemplate, lastToggle, muFuncs, common, toggling,
                   restVars>>

\* the steps of a call of AllowUnsafeRender and of a parse and render, once
\* made
TogglerStep(t) ==
    \/ FuncsLock(t)
    \/ FuncsLockAcquire(t)
    \/ FuncsExec(t)
    \/ FuncsParse(t)
    \/ FuncsUnlock(t)

ParserStep(p) ==
    \/ CloneRLock(p)
    \/ CloneCopyParse(p)
    \/ CloneCopyExec(p)
    \/ CloneRUnlock(p)
    \/ Render(p)

NextRegistry ==
    \/ \E t \in Togglers, allow \in BOOLEAN : ToggleCall(t, allow)
    \/ \E t \in Togglers : TogglerStep(t)
    \/ \E p \in Parsers : ParseCall(p)
    \/ \E p \in Parsers : ParserStep(p)

----------------------------------------------------------------------------
(* The TTL cache (go-ttlcache), as the library consumes it *)

Nil == "<nil>"

NoEntry == [present |-> FALSE, value |-> Nil, expires |-> 0]

\* Get(key) -> (value, found): found is false if absent or expired
TTLGet(cache, key, t) ==
    LET e == cache[key]
    IN  IF e.present /\ t < e.expires
        THEN [value |-> e.value, found |-> TRUE]
        ELSE [value |-> Nil, found |-> FALSE]

\* SetEx(key, value, ttl): stores value, overwriting any entry for key,
\* visible until now + ttl
TTLSetEx(cache, key, value, ttl, t) ==
    [cache EXCEPT ![key] =
        [present |-> TRUE, value |-> value, expires |-> t + ttl]]

\* the periodic sweep evicts the entries that have expired
TTLSweep(cache, t) ==
    [k \in DOMAIN cache |->
        IF cache[k].present /\ t >= cache[k].expires THEN NoEntry
                                                     ELSE cache[k]]

----------------------------------------------------------------------------
(* cacheSet / cacheGet *)

\* keys handed to cacheSet and cacheGet; the second has the form of a key of
\* the bearer-token cache
Keys == {"k1", "url::tok::id1"}

Values == {"a", "b"}

\* expire expressions handed to cacheSet
ExpireExprs == {"1s", "0s", "soon"}

\* timeutils.InterfaceToApproxBigDuration: the duration in ticks, or an error
InterfaceToApproxBigDuration(expire) ==
    CASE expire = "1s" -> [dur |-> 1 * TicksPerSecond, err |-> ""]
      [] expire = "0s" -> [dur |-> 0, err |-> ""]
      [] OTHER         -> [dur |-> 0, err |-> "invalid duration"]

\* variant: the parsed duration is dropped and a zero TTL is stored
cacheSet_ZeroTTL(cache, key, value, expire, t) ==
    LET exp == InterfaceToApproxBigDuration(expire)
    IN  IF exp.err # ""
        THEN [ret |-> value, err |-> exp.err, cache |-> cache]
        ELSE [ret |-> value, err |-> "",
              cache |-> TTLSetEx(cache, key, value, 0, t)]

\* variant: the cache's 15 minute default is stored instead of the duration
cacheSet_DefaultTTL(cache, key, value, expire, t) ==
    LET exp == InterfaceToApproxBigDuration(expire)
    IN  IF exp.err # ""
        THEN [ret |-> value, err |-> exp.err, cache |-> cache]
        ELSE [ret |-> value, err |-> "",
              cache |-> TTLSetEx(cache, key, value,
                                 15 * 60 * TicksPerSecond, t)]

\* variant: a live entry is kept and only an absent key is stored
cacheSet_IfAbsent(cache, key, value, expire, t) ==
    LET exp == InterfaceToApproxBigDuration(expire)
    IN  IF exp.err # ""
        THEN [ret |-> value, err |-> exp.err, cache |-> cache]
        ELSE [ret |-> value, err |-> "",
              cache |-> IF TTLGet(cache, key, t).found THEN cache
                        ELSE TTLSetEx(cache, key, value, exp.dur, t)]

\* variant: the error of the duration parse is not returned before the store
cacheSet_StoreOnError(cache, key, value, expire, t) ==
    LET exp == InterfaceToApproxBigDuration(expire)
    IN  [ret |-> value, err |-> exp.err,
         cache |-> TTLSetEx(cache, key, value, exp.dur, t)]

\* the helper's result (value, error) and the cache it leaves
cacheSet(cache, key, value, expire, t) ==
    LET exp == InterfaceToApproxBigDuration(expire)
    IN  IF exp.err # ""
        THEN [ret |-> value, err |-> exp.err, cache |-> cache]
        ELSE [ret |-> value, err |-> "",
              cache |-> TTLSetEx(cache, key, value, exp.dur, t)]

cacheGet(cache, key, t) == TTLGet(cache, key, t).value

Procs == 1..NumProcs

IdleProc ==
    [pc |-> "idle", key |-> "", value |-> Nil, ret |-> Nil, err |-> "",
     parsed |-> FALSE, dur |-> 0, expires |-> 0]

DoneProc == [IdleProc EXCEPT !.pc = "done"]

NoToken == <<>>

NoAuthCall ==
    [op |-> "none", args |-> <<>>, key |-> "", kind |-> "",
     fromCache |-> FALSE, token |-> NoToken, err |-> "", panic |-> FALSE,
     wrote |-> FALSE]

NoCall == [op |-> "none", key |-> "", ret |-> Nil]

NoSet == [n |-> 0, value |-> Nil, at |-> 0, dur |-> 0, overwrote |-> FALSE]

\* a render calls cacheSet: the duration is parsed and, unless that fails,
\* SetEx takes effect under the cache's lock
CacheSetCall(p, key, value, expire) ==
    /\ procs[p].pc = "idle"
    /\ \A q \in Procs : q < p => procs[q].pc # "idle"
    /\ LET r == cacheSet(templateCache, key, value, expire, now)
           exp == InterfaceToApproxBigDuration(expire)
       IN  /\ templateCache' = r.cache
           /\ procs' = [procs EXCEPT ![p] =
                   [pc |-> "return", key |-> key, value |-> value,
                    ret |-> r.ret, err |-> r.err,
                    parsed |-> (exp.err = ""), dur |-> exp.dur,
                    expires |-> IF exp.err # "" THEN 0 ELSE now + exp.dur]]
           /\ lastSet' = IF exp.err # "" THEN lastSet
                         ELSE [lastSet EXCEPT ![key] =
                                 [n |-> IF @.n < 2 THEN @.n + 1 ELSE 2,
                                  value |-> value, at |-> now,
                                  dur |-> exp.dur,
                                  overwrote |-> (@.n > 0 /\ @.value # value)]]
    /\ cacheCall' = NoCall
    /\ UNCHANGED <<now, lastDone, gateVars, authVars, pureVars>>

\* the call returns (value, err) to the render
CacheSetReturn(p) ==
    /\ procs[p].pc = "return"
    /\ procs' = [procs EXCEPT ![p] = DoneProc]
    /\ lastDone' = IF procs[p].err # "" THEN lastDone
                   ELSE [lastDone EXCEPT ![procs[p].key] =
                           [n |-> 1, value |-> procs[p].value,
                            expires |-> procs[p].expires]]
    /\ cacheCall' = NoCall
    /\ UNCHANGED <<now, templateCache, lastSet, gateVars, authVars,
                   pureVars>>

\* a render calls cacheGet
CacheGet(key) ==
    /\ cacheCall' = [op |-> "cacheGet", key |-> key,
                     ret |-> cacheGet(templateCache, key, now)]
    /\ UNCHANGED <<now, templateCache, procs, lastSet, lastDone,
                   gateVars, authVars, pureVars>>

Tick ==
    /\ now < MaxTime
    /\ now' = now + 1
    /\ cacheCall' = NoCall
    /\ authCall' = NoAuthCall
    /\ UNCHANGED <<templateCache, procs, lastSet, lastDone, gateVars,
                   authxTokenCache, lastFetch, pureVars>>

Sweep ==
    /\ templateCache' = TTLSweep(templateCache, now)
    /\ templateCache' # templateCache
    /\ cacheCall' = NoCall
    /\ UNCHANGED <<now, procs, lastSet, lastDone, gateVars, authVars,
                   pureVars>>

InitCache ==
    /\ now = 0
    /\ templateCache = [k \in Keys |-> NoEntry]
    /\ procs = [p \in Procs |-> IdleProc]
    /\ lastSet = [k \in Keys |-> NoSet]
    /\ lastDone = [k \in Keys |-> [n |-> 0, value |-> Nil, expires |-> 0]]
    /\ cacheCall = NoCall

NextCache ==
    \/ \E p \in Procs, key \in Keys, value \in Values, expire \in ExpireExprs :
            CacheSetCall(p, key, value, expire)
    \/ \E p \in Procs : CacheSetReturn(p)
    \/ \E key \in Keys : CacheGet(key)
    \/ Tick
    \/ Sweep

----------------------------------------------------------------------------
(* getAuthXBearerToken *)

\* time.Minute, in seconds
Minute == 60

\* (endpoint URL, caller token, authorization id)
AuthArgs == {<<"url", "tok", "id1">>, <<"url", "tok", "id2">>}

CacheKey(a) == a[1] \o "::" \o a[2] \o "::" \o a[3]

\* arguments that hold the separator of the cache key
SeparatorArgs == {<<"url", "tok::id1", "z">>, <<"url::tok", "id1", "z">>}

AuthKeys == {CacheKey(a) : a \in AuthArgs \cup SeparatorArgs}

\* exp claims (seconds) the server puts into the tokens it issues
ExpClaims == {0, Minute, Minute + 1, Minute + 2}

\* one dot-separated segment of a token field: its text when it is a plain
\* word, else whether it decodes as base64url, whether the decoded bytes are
\* JSON, and the exp they carry
Word(text) == [text |-> text, b64 |-> FALSE, json |-> FALSE, exp |-> 0]

Seg(b64, json, exp) == [text |-> "", b64 |-> b64, json |-> json, exp |-> exp]

\* a token is the sequence of its space-separated fields, each the sequence
\* of its dot-separated segments: "Bearer h.<claims>.s"
BearerToken(exp) ==
    <<<<Word("Bearer")>>, <<Word("h"), Seg(TRUE, TRUE, exp), Word("s")>>>>

Tokens ==
    [missing   |-> <<<<Word("")>>>>,
     nodots    |-> <<<<Word("Bearer")>>, <<Word("abc")>>>>,
     badbase64 |-> <<<<Word("Bearer")>>,
                     <<Word("h"), Seg(FALSE, FALSE, 0), Word("s")>>>>,
     badclaims |-> <<<<Word("Bearer")>>,
                     <<Word("h"), Seg(TRUE, FALSE, 0), Word("s")>>>>,
     scheme    |-> <<<<Word("Basic")>>,
                     <<Word("h"), Seg(TRUE, TRUE, Minute + 2), Word("s")>>>>]

\* what the HTTP call can produce: a transport failure, or a body that is not
\* JSON, carries GraphQL errors, or carries a token
Response(kind, transport, json, errors, token) ==
    [kind |-> kind, transport |-> transport, json |-> json,
     errors |-> errors, token |-> token]

\* the responses that are failures: no transport, no JSON, GraphQL errors, a
\* token that is missing or not of the form "Bearer a.b.c", undecodable claims
FailureKinds ==
    {"transport", "notjson", "graphql", "missing", "nodots", "scheme",
     "badbase64", "badclaims"}

Responses ==
    {Response("ok", TRUE, TRUE, 0, BearerToken(e)) : e \in ExpClaims}
        \cup {Response("transport", FALSE, FALSE, 0, Tokens.missing),
              Response("notjson", TRUE, FALSE, 0, Tokens.missing),
              Response("graphql", TRUE, TRUE, 1, Tokens.missing)}
        \cup {Response(k, TRUE, TRUE, 0, Tokens[k]) :
                k \in {"missing", "nodots", "scheme", "badbase64",
                       "badclaims"}}

\* time.Now().Unix(): whole seconds
Unix(t) == t \div TicksPerSecond

Outcome(token, err, panic, cache) ==
    [token |-> token, err |-> err, panic |-> panic, cache |-> cache]

\* the part of the helper after a cache miss, given the response of the
\* HTTP call: its result, or the panic it ends in, and the cache it leaves
fetchAuthXBearerToken(cache, cacheKey, resp, t) ==
    IF ~resp.transport
    THEN \* err of Do is overwritten unchecked; res is nil in res.Body
         Outcome(NoToken, "", TRUE, cache)
    ELSE IF ~resp.json
    THEN Outcome(NoToken, "invalid character", FALSE, cache)
    ELSE IF resp.errors > 0
    THEN Outcome(NoToken, "Authx error", FALSE, cache)
    ELSE LET authxBearerToken == resp.token
         IN  IF Len(authxBearerToken) < 2
             THEN \* strings.Split(token, " ")[1]: index out of range
                  Outcome(NoToken, "", TRUE, cache)
             ELSE LET tokenParts == authxBearerToken[2]
                  IN  IF Len(tokenParts) < 2
                      THEN \* tokenParts[1]: index out of range
                           Outcome(NoToken, "", TRUE, cache)
                      ELSE LET jwt == tokenParts[2]
                               expireAt == (jwt.exp - Unix(t)) * TicksPerSecond
                                               - Minute * TicksPerSecond
                           IN  IF ~jwt.b64
                               THEN Outcome(NoToken, "illegal base64 data",
                                            FALSE, cache)
                               ELSE IF ~jwt.json
                               THEN Outcome(NoToken, "invalid character",
                                            FALSE, cache)
                               ELSE Outcome(authxBearerToken, "", FALSE,
                                        TTLSetEx(cache, cacheKey,
                                                 authxBearerToken, expireAt, t))

\* variant: the one-minute margin is not subtracted
getAuthXBearerToken_NoMargin(cache, a, resp, t) ==
    LET cacheKey == CacheKey(a)
        cachedToken == TTLGet(cache, cacheKey, t)
    IN  IF cachedToken.found
        THEN Outcome(cachedToken.value, "", FALSE, cache)
        ELSE IF resp.kind \in {"ok", "scheme"}
        THEN Outcome(resp.token, "", FALSE,
                     TTLSetEx(cache, cacheKey, resp.token,
                              (resp.token[2][2].exp - Unix(t)) * TicksPerSecond,
                              t))
        ELSE fetchAuthXBearerToken(cache, cacheKey, resp, t)

getAuthXBearerToken(cache, a, resp, t) ==
    LET cacheKey == CacheKey(a)
        cachedToken == TTLGet(cache, cacheKey, t)
    IN  IF cachedToken.found
        THEN Outcome(cachedToken.value, "", FALSE, cache)
        ELSE fetchAuthXBearerToken(cache, cacheKey, resp, t)

NoFetch == [n |-> 0, at |-> 0, token |-> NoToken, args |-> <<>>]

\* a render calls getAuthXBearerToken(a...); resp is what the endpoint
\* answers if it is asked
\* variant: there is one cache, so an entry of the template cache under the
\* same key answers the lookup
AuthCall_OneCache(a, resp) ==
    /\ LET one == [k \in AuthKeys |->
                     IF k \in Keys /\ TTLGet(templateCache, k, now).found
                     THEN templateCache[k] ELSE authxTokenCache[k]]
           r == getAuthXBearerToken(one, a, resp, now)
           hit == TTLGet(one, CacheKey(a), now).found
       IN  /\ authxTokenCache' = r.cache
           /\ authCall' = [op |-> "call", args |-> a, key |-> CacheKey(a),
                           kind |-> IF hit THEN "" ELSE resp.kind,
                           fromCache |-> hit, token |-> r.token,
                           err |-> r.err, panic |-> r.panic,
                           wrote |-> (r.cache # authxTokenCache)]
           /\ lastFetch' = IF hit \/ resp.kind \notin {"ok", "scheme"}
                           THEN lastFetch
                           ELSE [lastFetch EXCEPT ![CacheKey(a)] =
                                   [n |-> 1, at |-> now, token |-> resp.token,
                                    args |-> a]]
    /\ UNCHANGED <<gateVars, cacheVars, pureVars>>

AuthCall(a, resp) ==
    /\ LET r == getAuthXBearerToken(authxTokenCache, a, resp, now)
           hit == TTLGet(authxTokenCache, CacheKey(a), now).found
       IN  /\ authxTokenCache' = r.cache
           /\ authCall' = [op |-> "call", args |-> a, key |-> CacheKey(a),
                           kind |-> IF hit THEN "" ELSE resp.kind,
                           fromCache |-> hit, token |-> r.token,
                           err |-> r.err, panic |-> r.panic,
                           wrote |-> (r.cache # authxTokenCache)]
           /\ lastFetch' = IF hit \/ resp.kind \notin {"ok", "scheme"}
                           THEN lastFetch
                           ELSE [lastFetch EXCEPT ![CacheKey(a)] =
                                   [n |-> 1, at |-> now, token |-> resp.token,
                                    args |-> a]]
    /\ UNCHANGED <<gateVars, cacheVars, pureVars>>

AuthSweep ==
    /\ authxTokenCache' = TTLSweep(authxTokenCache, now)
    /\ authxTokenCache' # authxTokenCache
    /\ authCall' = NoAuthCall
    /\ UNCHANGED <<lastFetch, gateVars, cacheVars, pureVars>>

InitAuth ==
    /\ authxTokenCache = [k \in AuthKeys |-> NoEntry]
    /\ lastFetch = [k \in AuthKeys |-> NoFetch]
    /\ authCall = NoAuthCall

NextAuth ==
    \/ \E a \in AuthArgs, resp \in Responses : AuthCall(a, resp)
    \/ AuthSweep
    \/ Tick

\* calls whose arguments hold the separator
NextKeys ==
    \/ \E a \in SeparatorArgs, resp \in Responses : AuthCall(a, resp)
    \/ AuthSweep
    \/ Tick

\* the key and the responses of the calls made next to cacheSet and cacheGet
SharedKey == CacheKey(<<"url", "tok", "id1">>)

SharedResponses ==
    {Response("ok", TRUE, TRUE, 0, BearerToken(Minute + 1)),
     Response("ok", TRUE, TRUE, 0, BearerToken(Minute + 2)),
     Response("graphql", TRUE, TRUE, 1, Tokens.missing)}

\* cacheSet, cacheGet and getAuthXBearerToken on the same key
NextBoth ==
    \/ \E p \in Procs, value \in Values, expire \in {"1s", "soon"} :
            CacheSetCall(p, SharedKey, value, expire)
    \/ \E p \in Procs : CacheSetReturn(p)
    \/ CacheGet(SharedKey)
    \/ \E resp \in SharedResponses :
            AuthCall(<<"url", "tok", "id1">>, resp)
    \/ Tick

----------------------------------------------------------------------------
(* Numeric coercion: multiply *)

\* a float64 as an exact decimal m * 10^(-f), without trailing zeros
RECURSIVE Dec(_, _)
Dec(m, f) ==
    IF m = 0 THEN [class |-> "finite", m |-> 0, f |-> 0]
    ELSE IF f > 0 /\ m % 10 = 0 THEN Dec(m \div 10, f - 1)
    ELSE [class |-> "finite", m |-> m, f |-> f]

\* the float64 values that are not finite: math.Inf(sign) and math.NaN()
Inf(sign) == [class |-> "inf", m |-> sign, f |-> 0]

NaN == [class |-> "nan", m |-> 0, f |-> 0]

Sign(n) == IF n > 0 THEN 1 ELSE IF n < 0 THEN -1 ELSE 0

RECURSIVE Pow10(_)
Pow10(n) == IF n = 0 THEN 1 ELSE 10 * Pow10(n - 1)

\* float64 multiplication
Times(a, b) ==
    IF a.class = "nan" \/ b.class = "nan" THEN NaN
    ELSE IF a.class = "inf" \/ b.class = "inf"
    THEN IF a.m = 0 \/ b.m = 0 THEN NaN ELSE Inf(Sign(a.m) * Sign(b.m))
    ELSE Dec(a.m * b.m, a.f + b.f)

\* float64 comparison a >= b
GE(a, b) ==
    IF a.class = "nan" \/ b.class = "nan" THEN FALSE
    ELSE IF a.class = "inf" THEN a.m = 1 \/ b = a
    ELSE IF b.class = "inf" THEN b.m = -1
    ELSE a.m * Pow10(b.f) >= b.m * Pow10(a.f)

\* template values by dynamic type
IntV(n) == [type |-> "int", int |-> n, num |-> Dec(0, 0), s |-> <<>>]

Int64V(n) == [type |-> "int64", int |-> n, num |-> Dec(0, 0), s |-> <<>>]

FloatV(d) == [type |-> "float64", int |-> 0, num |-> d, s |-> <<>>]

StringV(s) == [type |-> "string", int |-> 0, num |-> Dec(0, 0), s |-> s]

NumberV(s) == [type |-> "json.Number", int |-> 0, num |-> Dec(0, 0), s |-> s]

BoolV == [type |-> "bool", int |-> 0, num |-> Dec(0, 0), s |-> <<>>]

NilV == [type |-> "nil", int |-> 0, num |-> Dec(0, 0), s |-> <<>>]

DigitChars == {"0", "1", "2", "3", "4", "5", "6", "7", "8", "9"}

DigitOf(c) ==
    CASE c = "0" -> 0 [] c = "1" -> 1 [] c = "2" -> 2 [] c = "3" -> 3
      [] c = "4" -> 4 [] c = "5" -> 5 [] c = "6" -> 6 [] c = "7" -> 7
      [] c = "8" -> 8 [] c = "9" -> 9

ParseError == [ok |-> FALSE, f |-> Dec(0, 0)]

\* the digits and the decimal point of s from position i on
RECURSIVE ParseMantissa(_, _, _, _, _, _, _)
ParseMantissa(s, i, sign, m, f, dot, nd) ==
    IF i > Len(s)
    THEN IF nd = 0 THEN ParseError ELSE [ok |-> TRUE, f |-> Dec(sign * m, f)]
    ELSE IF s[i] = "."
    THEN IF dot THEN ParseError
         ELSE ParseMantissa(s, i + 1, sign, m, f, TRUE, nd)
    ELSE IF s[i] \in DigitChars
    THEN ParseMantissa(s, i + 1, sign, m * 10 + DigitOf(s[i]),
                       IF dot THEN f + 1 ELSE f, dot, nd + 1)
    ELSE ParseError

\* the letters of the special literals, compared ignoring case
FoldCase(c) ==
    CASE c = "I" -> "i" [] c = "N" -> "n" [] c = "F" -> "f" [] c = "A" -> "a"
      [] c = "T" -> "t" [] c = "Y" -> "y" [] OTHER -> c

\* strconv's special(): "inf" and "infinity" with an optional sign, "nan"
\* without one, in any letter case
ParseSpecial(s) ==
    LET signed == Len(s) > 0 /\ s[1] \in {"+", "-"}
        body == IF signed THEN Tail(s) ELSE s
        word == [i \in 1..Len(body) |-> FoldCase(body[i])]
    IN  IF word \in {<<"i", "n", "f">>,
                     <<"i", "n", "f", "i", "n", "i", "t", "y">>}
        THEN [ok |-> TRUE,
              f |-> Inf(IF signed /\ s[1] = "-" THEN -1 ELSE 1)]
        ELSE IF ~signed /\ word = <<"n", "a", "n">>
        THEN [ok |-> TRUE, f |-> NaN]
        ELSE ParseError

\* strconv.ParseFloat(s, 64) on the special literals and on decimal
\* literals: an optional sign, digits with an optional decimal point
ParseFloat(s) ==
    IF Len(s) = 0 THEN ParseError
    ELSE IF ParseSpecial(s).ok THEN ParseSpecial(s)
    ELSE IF s[1] = "-" THEN ParseMantissa(s, 2, -1, 0, 0, FALSE, 0)
    ELSE IF s[1] = "+" THEN ParseMantissa(s, 2, 1, 0, 0, FALSE, 0)
    ELSE ParseMantissa(s, 1, 1, 0, 0, FALSE, 0)

\* variant: strings and json.Numbers are read as integers only
multiplyOperand_Atoi(v) ==
    CASE v.type = "int" -> [ok |-> TRUE, f |-> Dec(v.int, 0)]
      [] v.type = "float64" -> [ok |-> TRUE, f |-> v.num]
      [] v.type \in {"string", "json.Number"} ->
            IF ParseFloat(v.s).ok /\ ParseFloat(v.s).f.f = 0
            THEN ParseFloat(v.s) ELSE ParseError
      [] OTHER -> [ok |-> TRUE, f |-> Dec(0, 0)]

\* the type switch multiply applies to each operand: the float it yields,
\* or not ok where the switch returns 0 from multiply
multiplyOperand(v) ==
    CASE v.type = "int" -> [ok |-> TRUE, f |-> Dec(v.int, 0)]
      [] v.type = "float64" -> [ok |-> TRUE, f |-> v.num]
      [] v.type = "string" -> ParseFloat(v.s)
      [] v.type = "json.Number" -> ParseFloat(v.s)
      [] OTHER -> [ok |-> TRUE, f |-> Dec(0, 0)]

\* variant: a string that does not parse is taken as 0 and the product is
\* still computed
multiply_ParseErrorAsZero(x, y) ==
    LET xFloat == multiplyOperand(x)
        yFloat == multiplyOperand(y)
    IN  Times(IF xFloat.ok THEN xFloat.f ELSE Dec(0, 0),
              IF yFloat.ok THEN yFloat.f ELSE Dec(0, 0))

multiply(x, y) ==
    LET xFloat == multiplyOperand(x)
        yFloat == multiplyOperand(y)
    IN  IF ~xFloat.ok THEN Dec(0, 0)
        ELSE IF ~yFloat.ok THEN Dec(0, 0)
        ELSE Times(xFloat.f, yFloat.f)

\* variant: ge follows multiply's policy, an operand it cannot read is 0
geOperand_Silent(v) ==
    CASE v.type = "int" -> [err |-> "", f |-> Dec(v.int, 0)]
      [] v.type = "float64" -> [err |-> "", f |-> v.num]
      [] v.type \in {"string", "json.Number"} ->
            [err |-> "", f |-> ParseFloat(v.s).f]
      [] OTHER -> [err |-> "", f |-> Dec(0, 0)]

\* the type switch ge applies to each operand: the float it yields, or the
\* error the switch returns from ge
geOperand(v) ==
    CASE v.type = "int" -> [err |-> "", f |-> Dec(v.int, 0)]
      [] v.type = "float64" -> [err |-> "", f |-> v.num]
      [] v.type \in {"string", "json.Number"} ->
            IF ParseFloat(v.s).ok THEN [err |-> "", f |-> ParseFloat(v.s).f]
            ELSE [err |-> "strconv.ParseFloat: invalid syntax",
                  f |-> Dec(0, 0)]
      [] OTHER -> [err |-> "unsupported type", f |-> Dec(0, 0)]

ge(x, y) ==
    LET xFloat == geOperand(x)
        yFloat == geOperand(y)
    IN  IF xFloat.err # "" THEN [ret |-> FALSE, err |-> xFloat.err]
        ELSE IF yFloat.err # "" THEN [ret |-> FALSE, err |-> yFloat.err]
        ELSE [ret |-> GE(xFloat.f, yFloat.f), err |-> ""]

\* decimal literals with the value they denote: <<m, f, text>>
Numerals ==
    {<<0, 0, <<"0">>>>, <<5, 0, <<"5">>>>, <<5, 0, <<"5", ".", "0">>>>,
     <<-3, 0, <<"-", "3">>>>, <<12, 0, <<"1", "2">>>>,
     <<25, 1, <<"2", ".", "5">>>>, <<-5, 1, <<"-", "0", ".", "5">>>>,
     <<25, 2, <<"0", ".", "2", "5">>>>}

\* the supported representations of a numeral's value
Representations(n) ==
    {StringV(n[3]), NumberV(n[3]), FloatV(Dec(n[1], n[2]))}
        \cup (IF n[2] = 0 THEN {IntV(n[1])} ELSE {})

\* the values that are not finite, as float64 and as text
Specials ==
    {[x |-> FloatV(Inf(1)), numeric |-> TRUE, val |-> Inf(1)],
     [x |-> FloatV(NaN), numeric |-> TRUE, val |-> NaN],
     [x |-> StringV(<<"I", "n", "f">>), numeric |-> TRUE, val |-> Inf(1)],
     [x |-> StringV(<<"-", "i", "n", "f">>), numeric |-> TRUE,
      val |-> Inf(-1)],
     [x |-> NumberV(<<"N", "a", "N">>), numeric |-> TRUE, val |-> NaN]}

\* operands of multiply and ge: a value, whether it is one the type switch
\* can read as a number, and then the number it stands for
Operands ==
    UNION {{[x |-> r, numeric |-> TRUE, val |-> Dec(n[1], n[2])] :
                r \in Representations(n)} : n \in Numerals}
        \cup Specials
        \cup {[x |-> r, numeric |-> FALSE, val |-> Dec(0, 0)] :
                r \in {StringV(<<"a", "b">>), StringV(<<>>),
                       StringV(<<"+", "n", "a", "n">>),
                       NumberV(<<"1", ".", "2", ".", "3">>), BoolV, NilV,
                       Int64V(5)}}

NoGe == [done |-> FALSE, ret |-> FALSE, err |-> ""]

NoMul ==
    [x |-> BoolV, y |-> BoolV, numeric |-> FALSE, cx |-> FALSE,
     cy |-> FALSE, vx |-> Dec(0, 0), vy |-> Dec(0, 0), done |-> FALSE,
     res |-> Dec(0, 0), ge |-> NoGe]

\* a template calls multiply x y
Multiply ==
    /\ ~mulCall.done
    /\ mulCall' = [mulCall EXCEPT !.done = TRUE,
                                  !.res = multiply(mulCall.x, mulCall.y)]
    /\ UNCHANGED <<gateVars, cacheVars, authVars, funcCall, concVars>>

\* a template calls ge x y
Ge ==
    /\ ~mulCall.ge.done
    /\ LET r == ge(mulCall.x, mulCall.y)
       IN  mulCall' = [mulCall EXCEPT
                         !.ge = [done |-> TRUE, ret |-> r.ret, err |-> r.err]]
    /\ UNCHANGED <<gateVars, cacheVars, authVars, funcCall, concVars>>

NextMul == Multiply \/ Ge

\* no helper call made yet; one call is observed in a behaviour
NoFunc == [fn |-> "none"]

----------------------------------------------------------------------------
\* The helper functions on keys, values and sequences

\* most arguments a variadic helper is called with
MaxArgs == 4

SliceV(elems) == [type |-> "slice", isNil |-> FALSE, elems |-> elems]

IsNaN(v) == v.type = "float64" /\ v.num.class = "nan"

\* the dynamic types a Go map cannot hash: inserting such a key panics
Unhashable(v) == v.type \in {"slice", "map", "func"}

\* a map[interface{}]interface{} as its entries; a NaN key equals no key,
\* itself included
NoLookup == [found |-> FALSE, v |-> NilV]

Lookup(m, k) ==
    IF IsNaN(k) \/ ~\E i \in 1..Len(m) : m[i].k = k THEN NoLookup
    ELSE [found |-> TRUE,
          v |-> m[CHOOSE i \in 1..Len(m) : m[i].k = k].v]

\* variant: an assignment to a key already present is ignored
MapAssign_KeepFirst(m, k, v) ==
    IF Unhashable(k) THEN [panic |-> TRUE, dict |-> m]
    ELSE IF Lookup(m, k).found THEN [panic |-> FALSE, dict |-> m]
    ELSE [panic |-> FALSE, dict |-> Append(m, [k |-> k, v |-> v])]

\* m[k] = v
MapAssign(m, k, v) ==
    IF Unhashable(k) THEN [panic |-> TRUE, dict |-> m]
    ELSE IF Lookup(m, k).found
    THEN [panic |-> FALSE,
          dict |-> [i \in 1..Len(m) |->
                      IF m[i].k = k THEN [k |-> k, v |-> v] ELSE m[i]]]
    ELSE [panic |-> FALSE, dict |-> Append(m, [k |-> k, v |-> v])]

\* the loop of dict from the i-th argument on: an argument at an odd index
\* (counting from 0) is stored under the argument before it
RECURSIVE dictLoop(_, _, _)
dictLoop(keysAndValues, i, d) ==
    IF i > Len(keysAndValues) THEN [panic |-> FALSE, dict |-> d]
    ELSE IF (i - 1) % 2 # 0
    THEN LET r == MapAssign(d, keysAndValues[i - 1], keysAndValues[i])
         IN  IF r.panic THEN r
             ELSE dictLoop(keysAndValues, i + 1, r.dict)
    ELSE dictLoop(keysAndValues, i + 1, d)

dict(keysAndValues) == dictLoop(keysAndValues, 1, <<>>)

DictValues ==
    {StringV(<<"a">>), StringV(<<"b">>), FloatV(NaN), SliceV(<<>>)}

ArgLists(S) == UNION {[1..n -> S] : n \in 0..MaxArgs}

\* a template calls dict
Dict ==
    /\ funcCall = NoFunc
    /\ \E args \in ArgLists(DictValues) :
          funcCall' = [fn |-> "dict", args |-> args, out |-> dict(args)]
    /\ UNCHANGED <<gateVars, cacheVars, authVars, mulCall, concVars>>

\* a *string: nil, or pointing to s
NilStringPtr == [type |-> "*string", isNil |-> TRUE, s |-> <<>>]

PtrV(s) == [type |-> "*string", isNil |-> FALSE, s |-> s]

\* the *time.Time that timeutils.ParseAnyMaybe hands to maybeFormatAnyTime:
\* nil, or a time
ParsedTimes ==
    {[isNil |-> TRUE, date |-> <<>>],
     [isNil |-> FALSE, date |-> <<"2006-01-02">>]}

\* maybeFormatAnyTime with the layout "2006-01-02", given the parsed time t
maybeFormatAnyTime(t) ==
    IF t.isNil THEN NilStringPtr ELSE PtrV(t.date)

\* coalesce from the i-th value on: v != nil compares the interface value
\* with the nil interface, which a pointer of any type, nil or not, is not
RECURSIVE coalesceLoop(_, _)
coalesceLoop(values, i) ==
    IF i > Len(values) THEN NilV
    ELSE IF values[i] # NilV THEN values[i]
    ELSE coalesceLoop(values, i + 1)

coalesce(values) == coalesceLoop(values, 1)

CoalesceValues ==
    {NilV, StringV(<<"a">>)} \cup {maybeFormatAnyTime(t) : t \in ParsedTimes}

\* a template calls coalesce
Coalesce ==
    /\ funcCall = NoFunc
    /\ \E args \in ArgLists(CoalesceValues) :
          funcCall' = [fn |-> "coalesce", args |-> args,
                       out |-> coalesce(args)]
    /\ UNCHANGED <<gateVars, cacheVars, authVars, mulCall, concVars>>

\* longest slice a helper is called with
MaxSliceLen == 3

NilSlice == [type |-> "slice", isNil |-> TRUE, elems |-> <<>>]

ArrayV(elems) == [type |-> "array", elems |-> elems]

MapV == [type |-> "map"]

\* the []interface{} copy of a slice of any element type; nil for a nil
\* slice and for a value whose reflect.Kind is not Slice
interfaceSlice(slice) ==
    IF slice.type # "slice" THEN [isNil |-> TRUE, list |-> <<>>]
    ELSE IF slice.isNil THEN [isNil |-> TRUE, list |-> <<>>]
    ELSE [isNil |-> FALSE,
          list |-> [i \in 1..Len(slice.elems) |-> slice.elems[i]]]

first(input) ==
    LET l == interfaceSlice(input)
    IN  IF l.isNil THEN NilV
        ELSE IF Len(l.list) = 0 THEN NilV
        ELSE l.list[1]

\* variant: last returns the element at index 0
last_First(input) == first(input)

last(input) ==
    LET l == interfaceSlice(input)
    IN  IF l.isNil THEN NilV
        ELSE IF Len(l.list) = 0 THEN NilV
        ELSE l.list[Len(l.list)]

Elements == {StringV(<<"a">>), IntV(5), NilV}

SliceInputs ==
    {SliceV(e) : e \in UNION {[1..n -> Elements] : n \in 0..MaxSliceLen}}
        \cup {NilSlice, NilV, StringV(<<"a">>), IntV(5), BoolV, MapV,
              ArrayV(<<IntV(5)>>)}

\* a template calls first
First ==
    /\ funcCall = NoFunc
    /\ \E input \in SliceInputs :
          funcCall' = [fn |-> "first", args |-> <<input>>,
                       out |-> first(input)]
    /\ UNCHANGED <<gateVars, cacheVars, authVars, mulCall, concVars>>

\* a template calls last
Last ==
    /\ funcCall = NoFunc
    /\ \E input \in SliceInputs :
          funcCall' = [fn |-> "last", args |-> <<input>>,
                       out |-> last(input)]
    /\ UNCHANGED <<gateVars, cacheVars, authVars, mulCall, concVars>>

\* longest list sortMap is called with
MaxListLen == 3

\* byte values of the characters of the sort keys
CharCode(c) ==
    CASE c = "-" -> 45 [] c \in DigitChars -> 48 + DigitOf(c)
      [] c = "a" -> 97 [] c = "b" -> 98

\* a < b on Go strings
StrLess(a, b) ==
    \E i \in 1..Len(b) :
        /\ \A j \in 1..(i - 1) : j <= Len(a) /\ a[j] = b[j]
        /\ \/ i = Len(a) + 1
           \/ i <= Len(a) /\ CharCode(a[i]) < CharCode(b[i])

DigitChar(d) ==
    CASE d = 0 -> "0" [] d = 1 -> "1" [] d = 2 -> "2" [] d = 3 -> "3"
      [] d = 4 -> "4" [] d = 5 -> "5" [] d = 6 -> "6" [] d = 7 -> "7"
      [] d = 8 -> "8" [] d = 9 -> "9"

\* fmt.Sprintf("%d", n)
RECURSIVE Itoa(_)
Itoa(n) ==
    IF n < 0 THEN <<"-">> \o Itoa(-n)
    ELSE IF n < 10 THEN <<DigitChar(n)>>
    ELSE Itoa(n \div 10) \o <<DigitChar(n % 10)>>

\* fmt.Sprintf("%.0f", d) for a finite d: the nearest integer, ties to even
FormatFloat0(d) ==
    LET abs == IF d.m < 0 THEN -d.m ELSE d.m
        q == abs \div Pow10(d.f)
        r == abs % Pow10(d.f)
        up == 2 * r > Pow10(d.f) \/ (2 * r = Pow10(d.f) /\ q % 2 = 1)
        n == IF up THEN q + 1 ELSE q
    IN  IF d.m < 0 THEN <<"-">> \o Itoa(n) ELSE Itoa(n)

\* the type switch of the comparison: the string a sort-key value is
\* compared as, or the error for a type without a case
SortKeyString(v) ==
    CASE v.type = "float64" -> [err |-> "", s |-> FormatFloat0(v.num)]
      [] v.type = "int64" -> [err |-> "", s |-> Itoa(v.int)]
      [] v.type = "string" -> [err |-> "", s |-> v.s]
      [] v.type = "nil" -> [err |-> "", s |-> <<>>]
      [] OTHER -> [err |-> "Invalid value type in sortMap", s |-> <<>>]

\* the less function sortMap hands to sort.SliceStable, on list[i], list[j]
sortMapLess(list, i, j, dir) ==
    LET a == SortKeyString(list[i].key)
        b == SortKeyString(list[j].key)
    IN  IF a.err # "" THEN [less |-> FALSE, err |-> a.err]
        ELSE IF b.err # "" THEN [less |-> FALSE, err |-> b.err]
        ELSE IF dir = "asc" THEN [less |-> StrLess(a.s, b.s), err |-> ""]
        ELSE [less |-> StrLess(b.s, a.s), err |-> ""]

Swap(list, i, j) ==
    [list EXCEPT ![i] = list[j], ![j] = list[i]]

\* sort.SliceStable on fewer than 20 elements is an insertion sort: the
\* inner loop moves the element at j down while it is less than the one
\* before it; err is the error the less function has recorded so far
RECURSIVE insertionInner(_, _, _, _)
insertionInner(list, j, err, dir) ==
    IF j <= 1 THEN [list |-> list, err |-> err]
    ELSE LET r == sortMapLess(list, j, j - 1, dir)
             e == IF r.err # "" THEN r.err ELSE err
         IN  IF r.less THEN insertionInner(Swap(list, j, j - 1), j - 1, e, dir)
             ELSE [list |-> list, err |-> e]

RECURSIVE insertionSort(_, _, _, _)
insertionSort(list, i, err, dir) ==
    IF i > Len(list) THEN [list |-> list, err |-> err]
    ELSE LET r == insertionInner(list, i, err, dir)
         IN  insertionSort(r.list, i + 1, r.err, dir)

sortMap(list, sortKey, dir) ==
    IF dir # "asc" /\ dir # "desc"
    THEN [list |-> <<>>, err |-> "Invalid sort direction for sortMap"]
    ELSE LET r == insertionSort(list, 2, "", dir)
         IN  IF r.err # "" THEN [list |-> <<>>, err |-> r.err]
             ELSE [list |-> r.list, err |-> ""]

\* values found under the sort key; nil also stands for an absent key
SortKeyValues ==
    {NilV, StringV(<<"a">>), StringV(<<"1", "0">>), FloatV(Dec(9, 0)),
     FloatV(Dec(25, 1)), Int64V(10), IntV(5), BoolV}

\* lists of mappings: element i of the input is tagged with i
SortLists ==
    UNION {{[i \in 1..n |-> [id |-> i, key |-> ks[i]]] :
               ks \in [1..n -> SortKeyValues]} : n \in 0..MaxListLen}

Directions == {"asc", "desc", "up"}

\* a template calls sortMap
SortMap ==
    /\ funcCall = NoFunc
    /\ \E list \in SortLists, dir \in Directions :
          funcCall' = [fn |-> "sortMap", args |-> <<list, "key", dir>>,
                       out |-> sortMap(list, "key", dir)]
    /\ UNCHANGED <<gateVars, cacheVars, authVars, mulCall, concVars>>

\* largest count left and right are called with
MaxCount == 3

\* a panic of the Go runtime inside a helper
Panicked == [panic |-> TRUE, ret |-> <<>>]

Returned(ret) == [panic |-> FALSE, ret |-> ret]

\* left on the bytes of str: len(str) and str[:n] count bytes, and a slice
\* expression with a negative bound panics
left(str, n) ==
    IF Len(str) <= n THEN Returned(str)
    ELSE IF n < 0 THEN Panicked
    ELSE Returned(SubSeq(str, 1, n))

\* right on the bytes of str: str[len(str)-n:] panics when len(str)-n
\* exceeds len(str)
right(str, n) ==
    IF Len(str) <= n THEN Returned(str)
    ELSE IF Len(str) - n > Len(str) THEN Panicked
    ELSE Returned(SubSeq(str, Len(str) - n + 1, Len(str)))

\* strings as their characters, each character as its UTF-8 bytes
EAcute == <<"\\xc3", "\\xa9">>

CharStrings ==
    {<<>>, <<<<"a">>>>, <<<<"a">>, <<"b">>, <<"c">>>>,
     <<<<"a">>, <<"b">>, <<"c">>, <<"d">>>>, <<EAcute, <<"a">>>>,
     <<<<"a">>, EAcute>>}

\* the bytes of a string given as characters
RECURSIVE Bytes(_)
Bytes(chars) ==
    IF chars = <<>> THEN <<>> ELSE Head(chars) \o Bytes(Tail(chars))

Counts == (-1)..MaxCount

\* a template calls left
Left ==
    /\ funcCall = NoFunc
    /\ \E s \in CharStrings, n \in Counts :
          funcCall' = [fn |-> "left", args |-> <<s, n>>,
                       out |-> left(Bytes(s), n)]
    /\ UNCHANGED <<gateVars, cacheVars, authVars, mulCall, concVars>>

\* a template calls right
Right ==
    /\ funcCall = NoFunc
    /\ \E s \in CharStrings, n \in Counts :
          funcCall' = [fn |-> "right", args |-> <<s, n>>,
                       out |-> right(Bytes(s), n)]
    /\ UNCHANGED <<gateVars, cacheVars, authVars, mulCall, concVars>>

\* the classes of the characters used: \p{L}, [0-9] and the lower case
Letters == {"a", "b", "s", "A", "\\u53f0"}

IsLetter(c) == c \in Letters

IsAsciiDigit(c) == c \in DigitChars

\* unicode.ToLower
ToLowerChar(c) == IF c = "A" THEN "a" ELSE c

\* strings.ToLower: character by character
ToLower(s) == [i \in 1..Len(s) |-> ToLowerChar(s[i])]

\* strings.Join(strs, sep)
RECURSIVE Join(_, _)
Join(strs, sep) ==
    IF strs = <<>> THEN <<>>
    ELSE IF Len(strs) = 1 THEN strs[1]
    ELSE strs[1] \o sep \o Join(Tail(strs), sep)

\* variant: the pattern matches runs, [^\p{L}0-9]+
RECURSIVE ReplaceNonAlnum_Runs(_)
ReplaceNonAlnum_Runs(s) ==
    IF s = <<>> THEN <<>>
    ELSE IF IsLetter(s[1]) \/ IsAsciiDigit(s[1])
    THEN <<s[1]>> \o ReplaceNonAlnum_Runs(Tail(s))
    ELSE IF Len(s) > 1 /\ ~(IsLetter(s[2]) \/ IsAsciiDigit(s[2]))
    THEN ReplaceNonAlnum_Runs(Tail(s))
    ELSE <<"_">> \o ReplaceNonAlnum_Runs(Tail(s))

\* regexp `[^\p{L}0-9]` ReplaceAllString(s, "_"): every match is one
\* character
RECURSIVE ReplaceNonAlnum(_)
ReplaceNonAlnum(s) ==
    IF s = <<>> THEN <<>>
    ELSE IF IsLetter(s[1]) \/ IsAsciiDigit(s[1])
    THEN <<s[1]>> \o ReplaceNonAlnum(Tail(s))
    ELSE <<"_">> \o ReplaceNonAlnum(Tail(s))

fingerprint(strs) == ToLower(ReplaceNonAlnum(Join(strs, <<"_">>)))

\* v.(string) with the ok result ignored: "" unless v is a string
AssertString(v) == IF v.type = "string" THEN v.s ELSE <<>>

\* variant: an int argument is written out in decimal
fingerprint_address_Sprint(address, city, state, zip, plus4Code) ==
    LET str(v) == IF v.type = "int" THEN Itoa(v.int) ELSE AssertString(v)
    IN  fingerprint(<<str(address), str(city), str(state), str(zip),
                      str(plus4Code)>>)

fingerprint_address(address, city, state, zip, plus4Code) ==
    ToLower(ReplaceNonAlnum(
        Join(<<AssertString(address), AssertString(city),
               AssertString(state), AssertString(zip),
               AssertString(plus4Code)>>, <<"_">>)))

\* "", "a", "A1", a CJK letter, "s.", a space and an Arabic-Indic digit
FingerprintStrings ==
    {<<>>, <<"a">>, <<"A", "1">>, <<"\\u53f0">>, <<"s", ".">>,
     <<" ", "\\u0663">>}

AddressValues == {StringV(s) : s \in FingerprintStrings} \cup {IntV(5), NilV}

\* a template calls fingerprint
Fingerprint ==
    /\ funcCall = NoFunc
    /\ \E strs \in ArgLists(FingerprintStrings) :
          funcCall' = [fn |-> "fingerprint", args |-> strs,
                       out |-> fingerprint(strs)]
    /\ UNCHANGED <<gateVars, cacheVars, authVars, mulCall, concVars>>

\* a template calls fingerprint_address
FingerprintAddress ==
    /\ funcCall = NoFunc
    /\ \E a \in [1..5 -> AddressValues] :
          funcCall' = [fn |-> "fingerprint_address", args |-> a,
                       out |-> fingerprint_address(a[1], a[2], a[3], a[4],
                                                   a[5])]
    /\ UNCHANGED <<gateVars, cacheVars, authVars, mulCall, concVars>>

\* longest email normalize_email is called with
MaxEmailLen == 4

\* strings.Split(s, sep)[0]: s up to the first sep, all of s without one
RECURSIVE BeforeFirst(_, _)
BeforeFirst(s, sep) ==
    IF s = <<>> \/ s[1] = sep THEN <<>>
    ELSE <<s[1]>> \o BeforeFirst(Tail(s), sep)

\* s without the characters of the set drop
RECURSIVE Without(_, _)
Without(s, drop) ==
    IF s = <<>> THEN <<>>
    ELSE IF s[1] \in drop THEN Without(Tail(s), drop)
    ELSE <<s[1]>> \o Without(Tail(s), drop)

WhiteSpace == {" ", "\t"}

\* strings.TrimSpace: white space is removed at both ends only
RECURSIVE TrimSpace(_)
TrimSpace(s) ==
    IF s = <<>> THEN <<>>
    ELSE IF s[1] \in WhiteSpace THEN TrimSpace(Tail(s))
    ELSE IF s[Len(s)] \in WhiteSpace THEN TrimSpace(SubSeq(s, 1, Len(s) - 1))
    ELSE s

normalize_email(email) ==
    LET plus == BeforeFirst(email, "+")
        at == BeforeFirst(plus, "@")
        dots == Without(at, {"."})
        digits == Without(dots, DigitChars)
        trimmed == TrimSpace(digits)
    IN  ToLower(trimmed)

EmailChars == {"a", "A", "1", ".", "+", "@", " "}

Emails == UNION {[1..n -> EmailChars] : n \in 0..MaxEmailLen}

\* a template calls normalize_email
NormalizeEmail ==
    /\ funcCall = NoFunc
    /\ \E email \in Emails :
          funcCall' = [fn |-> "normalize_email", args |-> <<email>>,
                       out |-> normalize_email(email)]
    /\ UNCHANGED <<gateVars, cacheVars, authVars, mulCall, concVars>>

\* strconv.FormatFloat(v, 'f', 2, 64): two decimals, ties to even; the
\* values that are not finite are written NaN, +Inf, -Inf
FormatFloat2(d) ==
    IF d.class = "nan" THEN <<"N", "a", "N">>
    ELSE IF d.class = "inf"
    THEN <<IF d.m < 0 THEN "-" ELSE "+", "I", "n", "f">>
    ELSE LET abs == IF d.m < 0 THEN -d.m ELSE d.m
             den == IF d.f > 2 THEN Pow10(d.f - 2) ELSE 1
             num == IF d.f > 2 THEN abs ELSE abs * Pow10(2 - d.f)
             q == num \div den
             r == num % den
             up == 2 * r > den \/ (2 * r = den /\ q % 2 = 1)
             n == IF up THEN q + 1 ELSE q
             text == Itoa(n \div 100) \o <<".", DigitChar((n % 100) \div 10),
                                           DigitChar(n % 10)>>
         IN  IF d.m < 0 THEN <<"-">> \o text ELSE text

interfaceToString(i) ==
    CASE i.type = "int64" -> [str |-> Itoa(i.int), err |-> ""]
      [] i.type = "float64" -> [str |-> FormatFloat2(i.num), err |-> ""]
      [] i.type = "int" -> [str |-> Itoa(i.int), err |-> ""]
      [] i.type = "string" -> [str |-> i.s, err |-> ""]
      [] i.type = "json.Number" -> [str |-> i.s, err |-> ""]
      [] OTHER -> [str |-> <<"0">>,
                   err |-> "Unable to convert type to string"]

\* the JSON number grammar: -? (0 | [1-9][0-9]*) (. [0-9]+)?
IsJsonNumber(s) ==
    LET body == IF Len(s) > 0 /\ s[1] = "-" THEN Tail(s) ELSE s
        dots == {i \in 1..Len(body) : body[i] = "."}
        intLen == IF dots = {} THEN Len(body)
                  ELSE (CHOOSE i \in dots : \A j \in dots : i <= j) - 1
    IN  /\ Cardinality(dots) <= 1
        /\ intLen >= 1
        /\ \A i \in 1..intLen : body[i] \in DigitChars
        /\ intLen > 1 => body[1] # "0"
        /\ dots # {} =>
              /\ intLen + 1 < Len(body)
              /\ \A i \in (intLen + 2)..Len(body) : body[i] \in DigitChars

\* json.Unmarshal([]byte(str), &amt) on a nil *currency.Amount: invalid
\* JSON is rejected before anything is stored and null stores nil, so amt
\* stays nil; for a number an Amount is allocated
UnmarshalAmount(str) ==
    IF IsJsonNumber(str) THEN [amt |-> "amount", err |-> ""]
    ELSE IF str = <<"n", "u", "l", "l">> THEN [amt |-> "nil", err |-> ""]
    ELSE [amt |-> "nil", err |-> "invalid character"]

\* the error of json.Unmarshal is dropped
toAmount(input) ==
    LET s == interfaceToString(input)
    IN  IF s.err # "" THEN [amt |-> "nil", err |-> s.err]
        ELSE [amt |-> UnmarshalAmount(s.str).amt, err |-> ""]

AmountInputs ==
    {StringV(<<"1", "2", ".", "5", "0">>), StringV(<<"a", "b">>),
     StringV(<<>>), StringV(<<"n", "u", "l", "l">>),
     StringV(<<"1", ".", "2", ".", "3">>), StringV(<<"0", "7">>),
     NumberV(<<"5">>), NumberV(<<"1", ".", "2", ".", "3">>),
     FloatV(Dec(25, 1)), FloatV(Dec(2345435, 5)), FloatV(NaN), IntV(5),
     Int64V(-3), BoolV, NilV, MapV}

\* a template calls toAmount
ToAmount ==
    /\ funcCall = NoFunc
    /\ \E input \in AmountInputs :
          funcCall' = [fn |-> "toAmount", args |-> <<input>>,
                       out |-> toAmount(input)]
    /\ UNCHANGED <<gateVars, cacheVars, authVars, mulCall, concVars>>

----------------------------------------------------------------------------
(* The rendering wrappers, on template texts written out piece by piece *)

MaxSrcLen == 3

\* strconv.Atoi works on the platform's int; the model's int holds
\* MaxIntDigits decimal digits
MaxIntDigits == 2

MaxInt == Pow10(MaxIntDigits) - 1

MinInt == -MaxInt - 1

\* an action whose helper returns an error, and an action left open
FailAction == "{{fail}}"

OpenAction == "{{"

\* a template text is a sequence of literal characters and actions
SrcTokens == {"4", "9", "0", "-", "+", " ", ".", FailAction, OpenAction}

TemplateTexts == UNION {[1..n -> SrcTokens] : n \in 0..MaxSrcLen}

\* RootTemplate.Clone() and tmpl.Parse(text): an action left open is a
\* syntax error
ParseText(root, text) ==
    IF \E i \in 1..Len(text) : text[i] = OpenAction
    THEN [ok |-> FALSE, tmpl |-> [funcs |-> root.funcs, text |-> <<>>]]
    ELSE [ok |-> TRUE, tmpl |-> [funcs |-> root.funcs, text |-> text]]

\* tmpl.Execute(&tBuf, data): the pieces are written to the buffer in order
\* until an action fails; what was written stays in the buffer
ExecuteBuffer(t) ==
    LET fails == {i \in 1..Len(t.text) : t.text[i] = FailAction}
    IN  IF fails = {} THEN [buf |-> t.text, err |-> ""]
        ELSE LET k == CHOOSE i \in fails : \A j \in fails : i <= j
             IN  [buf |-> SubSeq(t.text, 1, k - 1), err |-> "helper"]

\* variant: the buffer is returned with the error
TemplateExecuteToString_Partial(t) ==
    LET r == ExecuteBuffer(t)
    IN  [str |-> r.buf, err |-> r.err]

\* Template.ExecuteToString
TemplateExecuteToString(t) ==
    LET r == ExecuteBuffer(t)
    IN  IF r.err # "" THEN [str |-> <<>>, err |-> r.err]
        ELSE [str |-> r.buf, err |-> ""]

RECURSIVE DigitsValue(_)
DigitsValue(ds) ==
    IF ds = <<>> THEN 0
    ELSE LET v == 10 * DigitsValue(SubSeq(ds, 1, Len(ds) - 1))
                      + DigitOf(ds[Len(ds)])
         IN  IF v > MaxInt + 1 THEN MaxInt + 2 ELSE v

\* variant: white space around the literal is accepted
Atoi_TrimSpace(s) ==
    LET t == TrimSpace(s)
    IN  IF t = <<>> \/ \E i \in 1..Len(t) : t[i] \notin DigitChars
        THEN [n |-> 0, err |-> "syntax"]
        ELSE [n |-> DigitsValue(t), err |-> ""]

\* strconv.Atoi: an optional sign and decimal digits; a syntax error comes
\* with 0, a range error with the nearest int
Atoi(s) ==
    LET signed == Len(s) > 0 /\ s[1] \in {"+", "-"}
        neg == signed /\ s[1] = "-"
        ds == IF signed THEN Tail(s) ELSE s
    IN  IF ds = <<>> \/ \E i \in 1..Len(ds) : ds[i] \notin DigitChars
        THEN [n |-> 0, err |-> "syntax"]
        ELSE LET v == DigitsValue(ds)
             IN  IF ~neg /\ v > MaxInt THEN [n |-> MaxInt, err |-> "range"]
                 ELSE IF neg /\ v > MaxInt + 1
                 THEN [n |-> MinInt, err |-> "range"]
                 ELSE [n |-> IF neg THEN -v ELSE v, err |-> ""]

\* Template.ExecuteToInt
TemplateExecuteToInt(t) ==
    LET r == ExecuteBuffer(t)
    IN  IF r.err # "" THEN [n |-> 0, err |-> r.err]
        ELSE Atoi(r.buf)

\* Interpolate(data, text), from the current RootTemplate
InterpolateText(root, text) ==
    LET p == ParseText(root, text)
    IN  IF ~p.ok THEN [str |-> text, err |-> "syntax"]
        ELSE LET r == ExecuteBuffer(p.tmpl)
             IN  IF r.err # "" THEN [str |-> text, err |-> r.err]
                 ELSE [str |-> r.buf, err |-> ""]

\* a map[string]interface{} over MapKeys: Absent marks a key not in the map
MapKeys == {"a", "b"}

Absent == [type |-> "absent"]

MapOf(m) == [type |-> "map", m |-> m]

EmptyMap == [k \in MapKeys |-> Absent]

Entries(m) == {k \in MapKeys : m[k].type # "absent"}

\* InterpolateMap(data, templateMap); order is the order in which the range
\* statement visits the keys, which Go leaves open; dropped counts the
\* entries that were in parsed maps when the error came
RECURSIVE InterpolateMap(_, _, _)
RECURSIVE mapLoop(_, _, _, _, _)
mapLoop(root, templateMap, order, i, parsed) ==
    IF i > Len(order)
    THEN [isNil |-> FALSE, parsed |-> parsed, err |-> "", dropped |-> 0]
    ELSE LET key == order[i]
             v == templateMap[key]
             Failed(err, n) ==
                 [isNil |-> TRUE, parsed |-> EmptyMap, err |-> err,
                  dropped |-> Cardinality(Entries(parsed)) + n]
         IN  CASE v.type = "absent" ->
                    mapLoop(root, templateMap, order, i + 1, parsed)
               [] v.type = "string" ->
                    LET r == InterpolateText(root, v.s)
                    IN  IF r.err # "" THEN Failed(r.err, 0)
                        ELSE mapLoop(root, templateMap, order, i + 1,
                                     [parsed EXCEPT ![key] = StringV(r.str)])
               [] v.type = "json.Number" ->
                    LET f == ParseFloat(v.s)
                    IN  IF ~f.ok THEN Failed("Float64", 0)
                        ELSE mapLoop(root, templateMap, order, i + 1,
                                     [parsed EXCEPT ![key] = FloatV(f.f)])
               [] v.type = "map" ->
                    LET deep == InterpolateMap(root, v.m, order)
                    IN  IF deep.err # "" THEN Failed(deep.err, deep.dropped)
                        ELSE mapLoop(root, templateMap, order, i + 1,
                                     [parsed EXCEPT ![key] = MapOf(deep.parsed)])
               [] OTHER ->
                    mapLoop(root, templateMap, order, i + 1,
                            [parsed EXCEPT ![key] = v])

InterpolateMap(root, templateMap, order) ==
    mapLoop(root, templateMap, order, 1, EmptyMap)

\* a JSON document holding the template text as a string
JsonString(text) == [json |-> "string", text |-> text]

\* Template.UnmarshalJSON: the document must be a JSON string; its text is
\* parsed into a clone of the RootTemplate
UnmarshalTemplate(root, doc) ==
    IF doc.json # "string"
    THEN [ok |-> FALSE, err |-> "json", tmpl |-> ParseText(root, <<>>).tmpl]
    ELSE LET p == ParseText(root, doc.text)
         IN  [ok |-> p.ok, err |-> IF p.ok THEN "" ELSE "syntax",
              tmpl |-> p.tmpl]

\* json.Marshal of a Template: the type has no MarshalJSON, so the struct is
\* encoded, which is a JSON object with the exported fields of the embedded
\* parse tree
MarshalTemplate(t) == [json |-> "object", text |-> t.text]

ValidTexts == {s \in TemplateTexts : \A i \in 1..Len(s) : s[i] # OpenAction}

MapLeaves ==
    {Absent, StringV(<<"4">>), StringV(<<"4", FailAction>>),
     StringV(<<OpenAction>>), NumberV(<<"4">>), NumberV(<<".">>), BoolV}

FlatMaps == [MapKeys -> MapLeaves]

TemplateMaps == [MapKeys -> MapLeaves \cup {MapOf(m) : m \in FlatMaps}]

KeyOrders == {<<"a", "b">>, <<"b", "a">>}

\* a parsed template is rendered to a string
CallExecuteToString ==
    /\ funcCall = NoFunc
    /\ \E s \in ValidTexts :
          LET t == ParseText(RootTemplate, s).tmpl
          IN  funcCall' = [fn |-> "ExecuteToString", args |-> <<t>>,
                           out |-> TemplateExecuteToString(t)]
    /\ UNCHANGED <<gateVars, cacheVars, authVars, mulCall, concVars>>

\* a parsed template is rendered to an int, and to a string for comparison;
\* rendered is the text that was in the buffer
CallExecuteToInt ==
    /\ funcCall = NoFunc
    /\ \E s \in ValidTexts :
          LET t == ParseText(RootTemplate, s).tmpl
          IN  funcCall' = [fn |-> "ExecuteToInt", args |-> <<t>>,
                           out |-> TemplateExecuteToInt(t),
                           rendered |-> ExecuteBuffer(t),
                           str |-> TemplateExecuteToString(t)]
    /\ UNCHANGED <<gateVars, cacheVars, authVars, mulCall, concVars>>

CallInterpolate ==
    /\ funcCall = NoFunc
    /\ \E s \in TemplateTexts :
          funcCall' = [fn |-> "Interpolate", args |-> <<s>>,
                       out |-> InterpolateText(RootTemplate, s)]
    /\ UNCHANGED <<gateVars, cacheVars, authVars, mulCall, concVars>>

CallInterpolateMap ==
    /\ funcCall = NoFunc
    /\ \E m \in TemplateMaps, order \in KeyOrders :
          funcCall' = [fn |-> "InterpolateMap", args |-> <<m>>,
                       out |-> InterpolateMap(RootTemplate, m, order)]
    /\ UNCHANGED <<gateVars, cacheVars, authVars, mulCall, concVars>>

\* a template is unmarshalled from the JSON string of s, marshalled, and the
\* output is unmarshalled again
CallMarshal ==
    /\ funcCall = NoFunc
    /\ \E s \in ValidTexts :
          LET t == UnmarshalTemplate(RootTemplate, JsonString(s)).tmpl
              doc == MarshalTemplate(t)
          IN  funcCall' = [fn |-> "Marshal", args |-> <<s>>, tmpl |-> t,
                           out |-> doc,
                           again |-> UnmarshalTemplate(RootTemplate, doc)]
    /\ UNCHANGED <<gateVars, cacheVars, authVars, mulCall, concVars>>

NextFuncs ==
    \/ Dict
    \/ Coalesce
    \/ First
    \/ Last
    \/ SortMap
    \/ Left
    \/ Right
    \/ Fingerprint
    \/ FingerprintAddress
    \/ NormalizeEmail
    \/ ToAmount
    \/ CallExecuteToString
    \/ CallExecuteToInt
    \/ CallInterpolate
    \/ CallInterpolateMap
    \/ CallMarshal

----------------------------------------------------------------------------

InitGate ==
    /\ TemplateFuncs = [UNSAFE_render |-> "disabledUnsafeRender"]
    /\ RootTemplate = [funcs |-> TemplateFuncs["UNSAFE_render"],
                       partials |-> NoPartials]
    /\ loaded = {}
    /\ templates = <<>>
    /\ lastToggle = "none"
    /\ lastCall = [op |-> "none", tmpl |-> NoTemplate, data |-> "",
                   gate |-> "disabledUnsafeRender", toggle |-> "none",
                   out |-> "", err |-> "", reads |-> {}]

InitRegistry ==
    /\ muFuncs = [w |-> NoHolder, held |-> FALSE, readers |-> {},
                  waiting |-> {}]
    /\ common = [execFuncs |-> "disabledUnsafeRender",
                 parseFuncs |-> "disabledUnsafeRender"]
    /\ toggling = [t \in Togglers |-> IdleToggler]
    /\ parsing = [p \in Parsers |-> IdleParser]

Init ==
    /\ InitGate
    /\ InitCache
    /\ InitAuth
    /\ InitRegistry
    /\ mulCall = NoMul
    /\ funcCall = NoFunc

\* the operands of the multiply call are drawn from Operands
InitMul ==
    /\ InitGate
    /\ InitCache
    /\ InitAuth
    /\ InitRegistry
    /\ \E a \in Operands, b \in Operands :
            mulCall = [x |-> a.x, y |-> b.x,
                       numeric |-> (a.numeric /\ b.numeric),
                       cx |-> a.numeric, cy |-> b.numeric,
                       vx |-> a.val, vy |-> b.val,
                       done |-> FALSE, res |-> Dec(0, 0), ge |-> NoGe]
    /\ funcCall = NoFunc

Next ==
    \/ \E allow \in BOOLEAN : AllowUnsafeRender(allow)
    \/ \E src \in Sources : Parse(src)
    \/ \E doc \in JsonInputs : UnmarshalJSON(doc)
    \/ \E data \in Data, text \in Sources : Interpolate(data, text)
    \/ \E i \in 1..MaxTemplates, data \in Data : ExecuteToString(i, data)

Spec == Init /\ [][Next]_vars

SpecPartials == Init /\ [][NextPartials]_vars

SpecCache == Init /\ [][NextCache]_vars

SpecAuth == Init /\ [][NextAuth]_vars

SpecRegistry == Init /\ [][NextRegistry]_vars

\* every goroutine that is not waiting for the lock runs on
SpecRegistryFair ==
    /\ SpecRegistry
    /\ \A t \in Togglers : WF_vars(TogglerStep(t))
    /\ \A p \in Parsers : WF_vars(ParserStep(p))

SpecKeys == Init /\ [][NextKeys]_vars

SpecBoth == Init /\ [][NextBoth]_vars

SpecMul == InitMul /\ [][NextMul]_vars

SpecFuncs == Init /\ [][NextFuncs]_vars

----------------------------------------------------------------------------
(* The unsafe-render gate *)

\* the last call executed a template whose source invokes UNSAFE_render
ExecutedRender ==
    /\ lastCall.op \in {"Interpolate", "ExecuteToString"}
    /\ lastCall.tmpl.src.kind = "render"

\* C1: a template parsed while the gate is disabled (also before any toggle)
\* fails in UNSAFE_render with the fixed disabled error, for every filename
\* and every data argument, and reads no file.
C1_DisabledParseAlwaysFails ==
    (ExecutedRender /\ lastCall.tmpl.funcs = "disabledUnsafeRender")
        => /\ lastCall.err = ErrDisabled
           /\ lastCall.reads = {}

C1_Witness ==
    /\ ExecutedRender
    /\ lastCall.op = "ExecuteToString"
    /\ lastCall.tmpl.funcs = "disabledUnsafeRender"
    /\ lastCall.tmpl.parsedAt = "none"
    /\ lastCall.tmpl.src.file = "valid.tmpl"
    /\ lastCall.err = ErrDisabled

\* C2 as stated: while the gate is disabled every execution of UNSAFE_render
\* by any Template object fails with the disabled error and reads no file.
C2_Original ==
    (ExecutedRender /\ lastCall.gate = "disabledUnsafeRender")
        => /\ lastCall.err = ErrDisabled
           /\ lastCall.reads = {}

\* C2 amended: while the gate is disabled, a parse-and-execute and every
\* execution by a Template parsed while the gate was disabled fail with the
\* disabled error and read no file; a Template parsed while the gate was
\* enabled keeps the enabled implementation and reads at most the file it
\* names, and an UNSAFE_render call inside that file fails with the disabled
\* error.
C2_DisabledGate ==
    (ExecutedRender /\ lastCall.gate = "disabledUnsafeRender")
        => /\ (lastCall.op = "Interpolate"
                    \/ lastCall.tmpl.funcs = "disabledUnsafeRender")
                => (lastCall.err = ErrDisabled /\ lastCall.reads = {})
           /\ lastCall.tmpl.funcs = "unsafeRender"
                => /\ lastCall.reads \subseteq {lastCall.tmpl.src.file}
                   /\ FileInvokes(lastCall.tmpl.src.file) # ""
                        => lastCall.err = ErrDisabled

C2_Witness ==
    /\ ExecutedRender
    /\ lastCall.gate = "disabledUnsafeRender"
    /\ lastCall.tmpl.funcs = "unsafeRender"
    /\ lastCall.tmpl.src.file = "nested.tmpl"
    /\ lastCall.reads = {"nested.tmpl"}
    /\ lastCall.err = ErrDisabled

\* a template that was parsed and is executed after the same toggle sequence
ParsedAndExecutedAfterToggles ==
    /\ ExecutedRender
    /\ lastCall.tmpl.parsedAt = lastCall.toggle

\* C3: the gate is decided by the last toggle: a template parsed and executed
\* after a sequence of AllowUnsafeRender calls renders a valid file if and
\* only if the last call passed true; with no call at all it fails.
C3_LastToggleDecides ==
    (ParsedAndExecutedAfterToggles /\ lastCall.tmpl.src.file = "valid.tmpl")
        => /\ (lastCall.err = "") <=> (lastCall.toggle = "true")
           /\ lastCall.err = "" => lastCall.out = lastCall.data
           /\ lastCall.err # "" => lastCall.err = ErrDisabled

\* the gate was open (a stored template holds the enabled binding), was closed
\* again, and the parse-and-render of the valid file fails again
C3_Witness ==
    /\ ParsedAndExecutedAfterToggles
    /\ lastCall.op = "Interpolate"
    /\ lastCall.tmpl.src.file = "valid.tmpl"
    /\ lastCall.toggle = "false"
    /\ lastCall.err = ErrDisabled
    /\ \E i \in 1..Len(templates) : templates[i].funcs = "unsafeRender"

----------------------------------------------------------------------------
(* cacheSet / cacheGet *)

\* a cacheGet has just been answered; nothing has changed since
Got == cacheCall.op = "cacheGet"

\* the SetEx on the key of that cacheGet that took effect last
GotSet == lastSet[cacheCall.key]

\* C4: cacheSet(k, v, d) with a parseable positive duration returns v without
\* an error, and a cacheGet(k) at the same instant, with no cacheSet on k in
\* between, returns v.
C4_SetThenGet ==
    /\ \A p \in Procs :
        (procs[p].pc = "return" /\ procs[p].parsed /\ procs[p].dur > 0)
            => (procs[p].ret = procs[p].value /\ procs[p].err = "")
    /\ (Got /\ GotSet.n > 0 /\ GotSet.dur > 0 /\ GotSet.at = now)
            => cacheCall.ret = GotSet.value

C4_Witness ==
    /\ Got
    /\ GotSet.n = 1 /\ GotSet.dur > 0 /\ GotSet.at = now
    /\ cacheCall.ret = GotSet.value
    /\ cacheCall.ret \in Values

\* C5: once the clock has reached t0 + d for the last cacheSet(k, v, d), made
\* at t0, cacheGet(k) returns nil, swept or not.
C5_ExpiredNeverReturned ==
    (Got /\ GotSet.n > 0 /\ now >= GotSet.at + GotSet.dur)
        => cacheCall.ret = Nil

\* the entry has expired, is still held by the cache, and the lookup is nil
C5_Witness ==
    /\ Got
    /\ GotSet.n > 0 /\ GotSet.dur > 0
    /\ now >= GotSet.at + GotSet.dur
    /\ templateCache[cacheCall.key].present
    /\ cacheCall.ret = Nil

AllIdle == \A p \in Procs : procs[p].pc # "return"

\* C6 as stated: with every cacheSet call returned, a cacheGet returns the
\* value and obeys the expiry of the cacheSet call that completed last.
C6_Original ==
    (Got /\ AllIdle /\ lastDone[cacheCall.key].n > 0)
        => IF now < lastDone[cacheCall.key].expires
           THEN cacheCall.ret = lastDone[cacheCall.key].value
           ELSE cacheCall.ret = Nil

\* C6 amended: a cacheSet on a key that has been set before overwrites it
\* without error, and a later cacheGet returns the value and obeys the expiry
\* of the cacheSet whose store took effect last, never of an earlier one.
C6_LastStoreWins ==
    /\ \A p \in Procs :
        (procs[p].pc = "return" /\ procs[p].parsed
                /\ lastSet[procs[p].key].n >= 2)
            => procs[p].err = ""
    /\ (Got /\ GotSet.n >= 2)
            => IF now < GotSet.at + GotSet.dur
               THEN cacheCall.ret = GotSet.value
               ELSE cacheCall.ret = Nil

C6_Witness ==
    /\ Got
    /\ GotSet.n >= 2
    /\ GotSet.overwrote
    /\ now < GotSet.at + GotSet.dur
    /\ cacheCall.ret = GotSet.value

\* process p makes a cacheSet call whose expire expression does not parse
FailedCacheSet(p) ==
    /\ procs[p].pc = "idle"
    /\ procs'[p].pc = "return"
    /\ ~procs'[p].parsed

\* C7: a cacheSet whose expire expression does not parse returns an error and
\* leaves every entry of the template cache, value and expiry, as it was.
C7_FailedSetKeepsCache ==
    [][\A p \in Procs :
        FailedCacheSet(p)
            => (procs'[p].err # "" /\ templateCache' = templateCache)]_vars

\* the failed call found a live entry under its key
C7_Witness ==
    \E p \in Procs :
        /\ procs[p].pc = "return"
        /\ ~procs[p].parsed
        /\ procs[p].err # ""
        /\ TTLGet(templateCache, procs[p].key, now).found

----------------------------------------------------------------------------
(* getAuthXBearerToken *)

\* a call has just been answered from the token cache
Served == authCall.op = "call" /\ authCall.fromCache

\* the exp claim of a token, in seconds
ExpOf(token) == token[2][2].exp

\* the token served was fetched with more than a minute of validity left
FetchedWithMargin ==
    /\ lastFetch[authCall.key].n > 0
    /\ lastFetch[authCall.key].token = authCall.token
    /\ ExpOf(authCall.token) * TicksPerSecond - lastFetch[authCall.key].at
            > Minute * TicksPerSecond

\* C8 as stated: a token served from the cache at time t has exp - t > 60
\* seconds, and was not fetched with at most one minute of validity left.
C8_Original ==
    Served
        => /\ ExpOf(authCall.token) * TicksPerSecond - now
                    > Minute * TicksPerSecond
           /\ FetchedWithMargin

\* C8 amended: the lifetime is exp - now - 60 seconds with now truncated to
\* whole seconds, so a token served from the cache at time t has
\* exp - t > 59 seconds, and it was not fetched with at most one minute of
\* validity left.
C8_ServedWithMargin ==
    Served
        => /\ ExpOf(authCall.token) * TicksPerSecond - now
                    > (Minute - 1) * TicksPerSecond
           /\ FetchedWithMargin

\* a token is served with no more than 60 seconds left before its exp
C8_Witness ==
    /\ Served
    /\ ExpOf(authCall.token) * TicksPerSecond - now <= Minute * TicksPerSecond
    /\ ExpOf(authCall.token) * TicksPerSecond - now
            > (Minute - 1) * TicksPerSecond

\* C9: for each failure kind the helper returns an error, not a token, and
\* writes nothing to the token cache.
C9_FailureReturnsError ==
    (authCall.op = "call" /\ authCall.kind \in FailureKinds)
        => /\ authCall.err # ""
           /\ ~authCall.panic
           /\ authCall.token = NoToken
           /\ ~authCall.wrote

----------------------------------------------------------------------------
(* multiply *)

\* C10: whichever supported representation (int, float64, decimal string,
\* json.Number) each operand takes, multiply returns the product of the two
\* numbers the operands stand for, in either operand order.
C10_MultiplyByValue ==
    (mulCall.done /\ mulCall.numeric)
        => mulCall.res = Times(mulCall.vx, mulCall.vy)

\* 2.5 given as a string times -3 given as a json.Number
C10_Witness ==
    /\ mulCall.done
    /\ mulCall.numeric
    /\ mulCall.x = StringV(<<"2", ".", "5">>)
    /\ mulCall.y = NumberV(<<"-", "3">>)
    /\ mulCall.res = Dec(-75, 1)

\* a value of a type the numeric type switches have no case for
Unsupported(v) == v.type \notin {"int", "float64", "string", "json.Number"}

\* C11 as stated: multiply has no error outcome, and when either operand is
\* not coercible (a string or json.Number that does not parse, or a value of
\* another type such as int64, bool, nil) the result is 0.
C11_Original ==
    (mulCall.done /\ (~mulCall.cx \/ ~mulCall.cy))
        => mulCall.res = Dec(0, 0)

\* C11: multiply has no error outcome; when either operand is not coercible
\* the result is 0, except that a value of an unsupported type is taken as 0
\* and multiplied with the other operand, so that with an infinite or NaN
\* other operand the result is NaN.
C11_UncoercibleIsZero ==
    (mulCall.done /\ (~mulCall.cx \/ ~mulCall.cy))
        => mulCall.res =
              IF \/ /\ Unsupported(mulCall.x)
                    /\ mulCall.cy /\ mulCall.vy.class # "finite"
                 \/ /\ Unsupported(mulCall.y)
                    /\ mulCall.cx /\ mulCall.vx.class # "finite"
              THEN NaN
              ELSE Dec(0, 0)

\* an int64 times 12 is 0, the int64 having no case in the type switch
C11_Witness ==
    /\ mulCall.done
    /\ mulCall.x = Int64V(5)
    /\ mulCall.y = IntV(12)
    /\ mulCall.res = Dec(0, 0)

\* C12: ge returns (x >= y, no error) exactly when both operands are
\* coercible, and an error (never a silent false) when either is a string or
\* json.Number that does not parse or a value of another type, inputs on
\* which multiply returns a number without error.
C12_GeFailsOnUncoercible ==
    /\ mulCall.ge.done =>
          IF mulCall.cx /\ mulCall.cy
          THEN /\ mulCall.ge.err = ""
               /\ mulCall.ge.ret = GE(mulCall.vx, mulCall.vy)
          ELSE /\ mulCall.ge.err # ""
               /\ mulCall.ge.ret = FALSE
    /\ (mulCall.ge.done /\ mulCall.done /\ ~(mulCall.cx /\ mulCall.cy))
          => /\ mulCall.ge.err # ""
             /\ mulCall.res \in {Dec(0, 0), NaN}

\* ge "ab" 5 fails where multiply "ab" 5 is 0
C12_Witness ==
    /\ mulCall.ge.done
    /\ mulCall.done
    /\ mulCall.x = StringV(<<"a", "b">>)
    /\ mulCall.y = IntV(5)
    /\ mulCall.ge.err = "strconv.ParseFloat: invalid syntax"
    /\ mulCall.res = Dec(0, 0)

\* the positions of the keys of a dict call that have a following argument
KeyPositions(args) == {i \in 1..Len(args) : i % 2 = 1 /\ i < Len(args)}

LastPosition(args, k) ==
    CHOOSE i \in KeyPositions(args) :
        /\ args[i] = k
        /\ \A j \in KeyPositions(args) : args[j] = k => j <= i

IsNilOrNilPointer(v) == v = NilV \/ (v.type = "*string" /\ v.isNil)

\* C14: coalesce returns the first argument, in order, that is neither nil
\* nor a nil pointer (such as the nil *string of maybeFormatAnyTime on input
\* it cannot parse), and nil when every argument is nil or a nil pointer.
C14_CoalesceSkipsNilPointers ==
    funcCall.fn = "coalesce" =>
        LET args == funcCall.args
            present == {i \in 1..Len(args) : ~IsNilOrNilPointer(args[i])}
        IN  funcCall.out =
               IF present = {} THEN NilV
               ELSE args[CHOOSE i \in present : \A j \in present : i <= j]

\* a slice that is not nil and has an element
NonEmptySlice(v) == v.type = "slice" /\ ~v.isNil /\ Len(v.elems) > 0

\* C15: first and last return element 0 and element len-1 of a non-empty
\* slice of any element type, and nil for an empty slice, a nil slice, nil
\* and every value that is not a slice; they have no failure outcome.
C15_FirstLast ==
    funcCall.fn \in {"first", "last"} =>
        LET x == funcCall.args[1]
        IN  funcCall.out =
               IF ~NonEmptySlice(x) THEN NilV
               ELSE IF funcCall.fn = "first" THEN x.elems[1]
               ELSE x.elems[Len(x.elems)]

\* last of the slice [nil, "a", 5] is 5
C15_Witness ==
    /\ funcCall.fn = "last"
    /\ funcCall.args[1] = SliceV(<<NilV, StringV(<<"a">>), IntV(5)>>)
    /\ funcCall.out = IntV(5)

\* sorted is list reordered by the strings of the sort keys in direction
\* dir, elements with equal strings in input order
StableSorted(list, sorted, dir) ==
    /\ Len(sorted) = Len(list)
    /\ {sorted[i] : i \in 1..Len(sorted)} = {list[i] : i \in 1..Len(list)}
    /\ \A i, j \in 1..Len(sorted) :
          i < j =>
             LET a == SortKeyString(sorted[i].key).s
                 b == SortKeyString(sorted[j].key).s
             IN  /\ ~(IF dir = "asc" THEN StrLess(b, a) ELSE StrLess(a, b))
                 /\ a = b => sorted[i].id < sorted[j].id

\* C16: sortMap returns an error whenever dir is neither "asc" nor "desc"
\* and whenever an element's value under the key is of a type other than
\* float64, int64, string or absent/nil, for lists of every length; otherwise
\* it returns the elements in stable order of their stringified keys.
C16_SortMapValidates ==
    funcCall.fn = "sortMap" =>
        LET list == funcCall.args[1]
            dir == funcCall.args[3]
        IN  IF \/ dir \notin {"asc", "desc"}
               \/ \E i \in 1..Len(list) :
                     SortKeyString(list[i].key).err # ""
            THEN funcCall.out.err # ""
            ELSE /\ funcCall.out.err = ""
                 /\ StableSorted(list, funcCall.out.list, dir)

\* C17: left and right never fail, for any string and any integer n, zero
\* and negative n included: they return s itself when s has at most n
\* characters and otherwise the first / last n characters of s.
C17_LeftRightNeverFail ==
    funcCall.fn \in {"left", "right"} =>
        LET s == funcCall.args[1]
            n == funcCall.args[2]
        IN  /\ ~funcCall.out.panic
            /\ funcCall.out.ret =
                  IF Len(s) <= n THEN Bytes(s)
                  ELSE IF funcCall.fn = "left" THEN Bytes(SubSeq(s, 1, n))
                  ELSE Bytes(SubSeq(s, Len(s) - n + 1, Len(s)))

\* a character fingerprint keeps: a letter or an ASCII digit
Kept(c) == IsLetter(c) \/ IsAsciiDigit(c)

\* s with every maximal run of characters not kept replaced by one "_"
RECURSIVE CollapseRuns(_, _)
CollapseRuns(s, inRun) ==
    IF s = <<>> THEN <<>>
    ELSE IF Kept(s[1]) THEN <<s[1]>> \o CollapseRuns(Tail(s), FALSE)
    ELSE IF inRun THEN CollapseRuns(Tail(s), TRUE)
    ELSE <<"_">> \o CollapseRuns(Tail(s), TRUE)

\* C18 as stated: fingerprint joins its arguments with "_", replaces every
\* maximal run of characters that are neither letters nor digits by a
\* single "_", and lowercases the result.
C18_Original ==
    funcCall.fn = "fingerprint" =>
        funcCall.out = ToLower(CollapseRuns(Join(funcCall.args, <<"_">>),
                                            FALSE))

\* C18: fingerprint joins its arguments with "_", replaces each character
\* that is neither a letter nor an ASCII digit by one "_" (a run of k such
\* characters by k underscores), and lowercases the result.
C18_EachCharacterReplaced ==
    funcCall.fn = "fingerprint" =>
        LET joined == Join(funcCall.args, <<"_">>)
        IN  funcCall.out =
               [i \in 1..Len(joined) |->
                   IF Kept(joined[i]) THEN ToLowerChar(joined[i]) ELSE "_"]

\* fingerprint "s." "A1" is "s__a1": the dot and the joining "_" give two
\* underscores
C18_Witness ==
    /\ funcCall.fn = "fingerprint"
    /\ funcCall.args = <<<<"s", ".">>, <<"A", "1">>>>
    /\ funcCall.out = <<"s", "_", "_", "a", "1">>

\* C19: fingerprint and fingerprint_address map the "_"-joined input
\* character for character: letters (CJK included) and ASCII digits are
\* kept, lowercased, every other character becomes exactly one "_", and the
\* output is as long as the joined input; fingerprint_address equals
\* fingerprint on its arguments with every non-string argument taken as "".
C19_CharacterForCharacter ==
    /\ funcCall.fn \in {"fingerprint", "fingerprint_address"} =>
          LET strs == IF funcCall.fn = "fingerprint" THEN funcCall.args
                      ELSE [i \in 1..5 |->
                              IF funcCall.args[i].type = "string"
                              THEN funcCall.args[i].s ELSE <<>>]
              joined == Join(strs, <<"_">>)
          IN  /\ Len(funcCall.out) = Len(joined)
              /\ \A i \in 1..Len(joined) :
                    /\ Kept(joined[i])
                          => funcCall.out[i] = ToLowerChar(joined[i])
                    /\ ~Kept(joined[i]) => funcCall.out[i] = "_"
              /\ funcCall.fn = "fingerprint_address"
                    => funcCall.out = fingerprint(strs)

\* fingerprint_address on a CJK letter, "s.", an int, "A1" and nil
C19_Witness ==
    /\ funcCall.fn = "fingerprint_address"
    /\ funcCall.args = <<StringV(<<"\\u53f0">>), StringV(<<"s", ".">>),
                         IntV(5), StringV(<<"A", "1">>), NilV>>
    /\ funcCall.out = <<"\\u53f0", "_", "s", "_", "_", "_", "a", "1", "_">>

\* the length of the part of s before the first '+' and the first '@'
LocalLen(s) ==
    IF \E i \in 1..Len(s) : s[i] \in {"+", "@"}
    THEN (CHOOSE i \in 1..Len(s) :
             /\ s[i] \in {"+", "@"}
             /\ \A j \in 1..(i - 1) : s[j] \notin {"+", "@"}) - 1
    ELSE Len(s)

\* C20: normalize_email never fails; its result holds no '+', '@', '.',
\* ASCII digit, uppercase letter or white space anywhere; it is the part of
\* the email before the first '+' and the first '@' with dots, digits and
\* white space stripped, lowercased; and normalizing the result again
\* returns it unchanged.
C20_NormalizeEmail ==
    funcCall.fn = "normalize_email" =>
        LET email == funcCall.args[1]
            out == funcCall.out
            local == SubSeq(email, 1, LocalLen(email))
        IN  /\ \A i \in 1..Len(out) :
                  out[i] \notin {"+", "@", ".", "A"} \cup DigitChars
                                    \cup WhiteSpace
            /\ out = ToLower(Without(local,
                                     {"."} \cup DigitChars \cup WhiteSpace))
            /\ normalize_email(out) = out

\* a string or json.Number that is a numeric literal
NumericLiteral(v) == v.type \in {"string", "json.Number"} /\ IsJsonNumber(v.s)

\* C26: toAmount returns an error whenever its argument is a string or
\* json.Number that is not a parseable numeric literal and whenever it is of
\* an unsupported type; it never returns a nil amount with a nil error.
C26_ToAmountFails ==
    funcCall.fn = "toAmount" =>
        LET x == funcCall.args[1]
        IN  /\ (x.type \in {"string", "json.Number"} /\ ~NumericLiteral(x))
                  => funcCall.out.err # ""
            /\ x.type \notin {"string", "json.Number", "int", "int64",
                              "float64"} => funcCall.out.err # ""
            /\ ~(funcCall.out.amt = "nil" /\ funcCall.out.err = "")

\* C21: for every valid template text s, unmarshalling the JSON string of s
\* and marshalling the Template gives the JSON string of s again, and
\* unmarshalling that output gives an equivalent Template.
C21_RoundTrip ==
    funcCall.fn = "Marshal" =>
        /\ funcCall.out = JsonString(funcCall.args[1])
        /\ funcCall.again.ok
        /\ funcCall.again.tmpl = funcCall.tmpl

\* an optional sign followed by one or more decimal digits
IntegerLiteral(s) ==
    LET ds == IF Len(s) > 0 /\ s[1] \in {"+", "-"} THEN Tail(s) ELSE s
    IN  ds # <<>> /\ \A i \in 1..Len(ds) : ds[i] \in DigitChars

\* the value of an integer literal
LiteralValue(s) ==
    LET ds == IF s[1] \in {"+", "-"} THEN Tail(s) ELSE s
        Value[i \in 0..Len(ds)] ==
            IF i = 0 THEN 0 ELSE 10 * Value[i - 1] + DigitOf(ds[i])
    IN  IF s[1] = "-" THEN -Value[Len(ds)] ELSE Value[Len(ds)]

\* the template's text has no failing action
Succeeds(text) == \A i \in 1..Len(text) : text[i] # FailAction

\* C22 as stated: every error of ExecuteToInt comes together with 0
C22_Original ==
    funcCall.fn = "ExecuteToInt" =>
        LET text == funcCall.args[1].text
            fits == LiteralValue(text) \in MinInt..MaxInt
        IN  /\ funcCall.out.err = "" <=>
                  Succeeds(text) /\ IntegerLiteral(text) /\ fits
            /\ funcCall.out.err = "" => funcCall.out.n = LiteralValue(text)
            /\ funcCall.out.err # "" => funcCall.out.n = 0
            /\ funcCall.rendered.err = ""
                  => funcCall.str.str = funcCall.rendered.buf

\* C22: ExecuteToInt returns (n, nil) exactly when the execution succeeds and
\* the whole rendered text is an integer literal for n that fits an int; a
\* failed execution and a text that is no integer literal give an error with
\* 0, a literal that does not fit gives an error with the nearest int; and
\* ExecuteToString returns the text that ExecuteToInt parsed.
C22_ExecuteToInt ==
    funcCall.fn = "ExecuteToInt" =>
        LET text == funcCall.args[1].text
            fits == LiteralValue(text) \in MinInt..MaxInt
        IN  /\ funcCall.out.err = "" <=>
                  Succeeds(text) /\ IntegerLiteral(text) /\ fits
            /\ funcCall.out.err = "" => funcCall.out.n = LiteralValue(text)
            /\ ~(Succeeds(text) /\ IntegerLiteral(text))
                  => funcCall.out.n = 0
            /\ (Succeeds(text) /\ IntegerLiteral(text) /\ ~fits)
                  => funcCall.out.n = IF text[1] = "-" THEN MinInt ELSE MaxInt
            /\ funcCall.rendered.err = ""
                  => /\ funcCall.str.err = ""
                     /\ funcCall.str.str = funcCall.rendered.buf

\* the rendered text is a literal of digits that does not fit an int
C22_Witness ==
    /\ funcCall.fn = "ExecuteToInt"
    /\ funcCall.args[1].text = [i \in 1..(MaxIntDigits + 1) |-> "9"]
    /\ funcCall.out.err = "range"

\* the text fails to parse or one of its actions fails
TextFails(text) ==
    \E i \in 1..Len(text) : text[i] \in {FailAction, OpenAction}

\* some string of the map, at any depth, fails
MapFails(m) ==
    \E k \in MapKeys :
        \/ m[k].type = "string" /\ TextFails(m[k].s)
        \/ /\ m[k].type = "map"
           /\ \E j \in MapKeys :
                 m[k].m[j].type = "string" /\ TextFails(m[k].m[j].s)

\* C23: whenever parsing or a helper fails, ExecuteToString returns "" with
\* the error, Interpolate returns the original text with the error, and
\* InterpolateMap returns a nil map with the error, whatever was interpolated
\* before.
C23_NoPartialSuccess ==
    /\ funcCall.fn = "ExecuteToString" =>
          (TextFails(funcCall.args[1].text)
              => funcCall.out.err # "" /\ funcCall.out.str = <<>>)
    /\ funcCall.fn = "Interpolate" =>
          (TextFails(funcCall.args[1])
              => funcCall.out.err # "" /\ funcCall.out.str = funcCall.args[1])
    /\ funcCall.fn = "InterpolateMap" =>
          /\ MapFails(funcCall.args[1])
                => funcCall.out.err # "" /\ funcCall.out.isNil
          /\ funcCall.out.err # "" => funcCall.out.isNil

\* InterpolateMap failed in a nested map after entries of the outer and of
\* the nested map had been interpolated
C23_Witness ==
    /\ funcCall.fn = "InterpolateMap"
    /\ funcCall.out.err = "helper"
    /\ funcCall.out.dropped = 2
    /\ funcCall.args[1]["a"] = StringV(<<"4">>)
    /\ funcCall.args[1]["b"].type = "map"

\* C24: once a load that returned nil has defined a partial, the root keeps
\* it defined through every later toggle and load, and a template parsed
\* afterwards by Parse, Interpolate or UnmarshalJSON that invokes it renders
\* the partial's body.
C24_PartialsAvailable ==
    /\ \A P \in loaded : RootTemplate.partials[P] # Undefined
    /\ (/\ lastCall.op \in {"ExecuteToString", "Interpolate"}
        /\ lastCall.tmpl.src.kind = "invoke"
        /\ lastCall.tmpl.src.file \in lastCall.tmpl.after)
          => lastCall.err = "" /\ lastCall.out \in PartialBodies

\* a stored template invokes P, which was loaded before its parse; since the
\* parse the gate was toggled and P was redefined in the root
C24_Witness ==
    /\ lastCall.op = "ExecuteToString"
    /\ lastCall.tmpl.src = [kind |-> "invoke", file |-> "P"]
    /\ "P" \in lastCall.tmpl.after
    /\ lastCall.toggle # lastCall.tmpl.parsedAt
    /\ RootTemplate.partials["P"] # lastCall.tmpl.partials["P"]
    /\ lastCall.err = ""

\* C28: a template's UNSAFE_render binding is the one of its parse: a
\* template parsed while the gate was disabled fails with the disabled error
\* on every execution, also after AllowUnsafeRender(true); and the exported
\* TemplateFuncs map always binds UNSAFE_render to the disabled
\* implementation.
C28_SnapshotAndRegistry ==
    /\ TemplateFuncs = [UNSAFE_render |-> "disabledUnsafeRender"]
    /\ \A i \in 1..Len(templates) :
          templates[i].funcs = IF templates[i].parsedAt = "true"
                               THEN "unsafeRender" ELSE "disabledUnsafeRender"
    /\ (/\ lastCall.op = "ExecuteToString"
        /\ lastCall.tmpl.src.kind = "render"
        /\ lastCall.tmpl.parsedAt # "true")
          => lastCall.err = ErrDisabled /\ lastCall.reads = {}

\* a template parsed while the gate was disabled is executed after the gate
\* was enabled
C28_Witness ==
    /\ lastCall.op = "ExecuteToString"
    /\ lastCall.tmpl.src = [kind |-> "render", file |-> "valid.tmpl"]
    /\ lastCall.tmpl.parsedAt = "false"
    /\ lastCall.gate = "unsafeRender"
    /\ lastCall.err = ErrDisabled

\* C29: after a Configure call, and until the next toggle, the gate equals
\* cfg.AllowUnsafeRender, whether the call returned nil or a partial-loading
\* error; with nil or empty Partials it returned nil and the loaded partials
\* are as they were before the call.
C29_Configure ==
    lastCall.op = "Configure" =>
        LET cfg == lastCall.cfg
        IN  /\ lastToggle = (IF cfg.AllowUnsafeRender THEN "true" ELSE "false")
                  => RootTemplate.funcs = Binding(cfg.AllowUnsafeRender)
            /\ (cfg.Partials.isNil \/ cfg.Partials.list = <<>>)
                  => /\ lastCall.err = ""
                     /\ RootTemplate.partials = lastCall.before

\* Configure with AllowUnsafeRender = false failed to load its partials
\* while the gate was enabled, and the gate is disabled
C29_Witness ==
    /\ lastCall.op = "Configure"
    /\ lastCall.err # ""
    /\ ~lastCall.cfg.AllowUnsafeRender
    /\ lastCall.gate = "unsafeRender"
    /\ lastToggle = "false"
    /\ RootTemplate.funcs = "disabledUnsafeRender"

\* C27: entries of the token cache are keyed by the (URL, token, id) triple:
\* a call is answered from the cache only by an entry that a call with the
\* same three arguments wrote, also when an argument holds "::".
C27_KeyedByTriple ==
    (authCall.op = "call" /\ authCall.fromCache)
        => lastFetch[authCall.key].args = authCall.args

\* C30: the template cache and the token cache are independent: what
\* getAuthXBearerToken finds in its cache is the token of its own last fetch
\* whatever cacheSet stored under the same key, cacheGet returns what
\* cacheSet stored whatever token was fetched, and each operation leaves the
\* other cache unchanged.
C30_IndependentCaches ==
    /\ [](/\ (authCall.op = "call" /\ authCall.fromCache)
                => /\ lastFetch[authCall.key].n > 0
                   /\ authCall.token = lastFetch[authCall.key].token
          /\ (cacheCall.op = "cacheGet" /\ cacheCall.ret # Nil)
                => /\ lastSet[cacheCall.key].n > 0
                   /\ cacheCall.ret \in Values)
    /\ [][/\ (procs' # procs \/ cacheCall' # cacheCall)
                => authxTokenCache' = authxTokenCache
          /\ (authCall' # authCall /\ authCall'.op = "call")
                => templateCache' = templateCache]_vars

\* both caches hold a live entry under the same key, and a call of
\* getAuthXBearerToken was answered from the token cache
C30_Witness ==
    /\ authCall.op = "call"
    /\ authCall.fromCache
    /\ authCall.key = SharedKey
    /\ TTLGet(templateCache, SharedKey, now).found
    /\ TTLGet(authxTokenCache, SharedKey, now).found

\* a parse has its clone
Cloned(p) == parsing[p].pc \in {"runlock", "execute", "done"}

====
